---- MODULE Spec2Model ----
(***************************************************************************)
(* A model of the Loxie bytecode virtual machine (src/src/vm) and of the   *)
(* bytecode emitter's patch protocol (src/src/codegen).                    *)
(*                                                                         *)
(* The engine is modelled at the granularity of one executed instruction.  *)
(* The program text is the input of the engine: every step fetches some    *)
(* instruction with in-range operands, so the reachable states are those   *)
(* of all programs of at most MaxSteps executed instructions.  A Rust      *)
(* panic (an `unwrap` of `None`, a checked arithmetic overflow) aborts the *)
(* process; it is modelled by phase = "aborted".                           *)
(***************************************************************************)
EXTENDS Integers, Sequences, FiniteSets, TLC

\* ------------------------------------------------------------------ bounds

StackLimit == 3
MaxSteps == 4
MaxFrames == 3

\* ------------------------------------------------------- program constants

BASE_STRING_OVERHEAD == 24
PRESET_STRING_CONTENT_OVERHEAD == 26
DUD_OVERHEAD == 1
I16_MAX == 32767
I32_MAX == 2147483647

TOTAL_STRING_OVERHEAD == BASE_STRING_OVERHEAD + PRESET_STRING_CONTENT_OVERHEAD
MAX_HEAP_OVERHEAD == I16_MAX * TOTAL_STRING_OVERHEAD
I32_MIN == (-I32_MAX) - 1

\* ------------------------------------------------------------------ values

\* vm/value.rs Value: a tag and a payload.  Bool payloads are 0/1, a Float
\* payload is the rational v/d in lowest terms (d = 1 for the other tags).
Val(tag, n) == [t |-> tag, v |-> n, d |-> 1]
VEmpty == Val("Empty", 0)
VBool(b) == Val("Bool", IF b THEN 1 ELSE 0)
VChar(c) == Val("Char", c)
VInt(n) == Val("Int", n)
VHeapRef(id) == Val("HeapRef", id)
\* Option<Value>::None
NoneV == Val("None", 0)

Abs(x) == IF x < 0 THEN -x ELSE x

RECURSIVE GCD(_, _)
GCD(a, b) == IF b = 0 THEN a ELSE GCD(b, a % b)

VFloat(n, m) ==
    LET g == GCD(Abs(n), Abs(m))
        s == IF m < 0 THEN -1 ELSE 1
    IN  [t |-> "Float", v |-> s * (n \div g), d |-> s * (m \div g)]

get_type_code(x) ==
    CASE x.t = "Empty" -> 0
      [] x.t = "Bool" -> 1
      [] x.t = "Char" -> 2
      [] x.t = "Int" -> 3
      [] x.t = "Float" -> 4
      [] x.t = "HeapRef" -> 5

check_type_code(a, b) == get_type_code(a) = get_type_code(b)

is_same_ref(a, b) ==
    LET x == IF a.t = "HeapRef" THEN a.v ELSE -1
        y == IF b.t = "HeapRef" THEN b.v ELSE -1
    IN  x = y

test(x) ==
    CASE x.t = "Empty" -> FALSE
      [] x.t = "Bool" -> x.v = 1
      [] x.t = "Char" -> x.v # 0
      [] x.t = "Int" -> x.v # 0
      [] x.t = "Float" -> x.v # 0
      [] x.t = "HeapRef" -> x.v # -1

is_equal(a, b) ==
    IF ~check_type_code(a, b) THEN FALSE
    ELSE CASE a.t = "Empty" -> FALSE
           [] a.t \in {"Bool", "Char", "Int"} -> a.v = b.v
           [] a.t = "Float" -> a.v = b.v /\ a.d = b.d
           [] OTHER -> is_same_ref(a, b)

is_unequal(a, b) == ~is_equal(a, b)

is_lesser(a, b) ==
    IF ~check_type_code(a, b) THEN FALSE
    ELSE CASE a.t \in {"Int", "Char"} -> a.v < b.v
           [] a.t = "Float" -> a.v * b.d < b.v * a.d
           [] OTHER -> FALSE

is_greater(a, b) ==
    IF ~check_type_code(a, b) THEN FALSE
    ELSE CASE a.t \in {"Int", "Char"} -> a.v > b.v
           [] a.t = "Float" -> a.v * b.d > b.v * a.d
           [] OTHER -> FALSE

\* ------------------------------------------------- 32-bit signed arithmetic

\* An i32 operation either fits, or overflows: a build with overflow checks
\* panics, a build without them wraps modulo 2^32.  Division overflow
\* (i32::MIN / -1) panics in every build.
AddFits(a, b) ==
    IF b > 0 THEN a <= I32_MAX - b ELSE a >= I32_MIN - b

WrapAdd(a, b) ==
    IF AddFits(a, b) THEN a + b
    ELSE IF b > 0 THEN (a + I32_MIN) + (b + I32_MIN)
    ELSE (a - I32_MIN) + (b - I32_MIN)

NegFits(a) == a # I32_MIN

WrapNeg(a) == IF a = I32_MIN THEN I32_MIN ELSE -a

SubFits(a, b) ==
    IF b = I32_MIN THEN a < 0 ELSE AddFits(a, -b)

WrapSub(a, b) ==
    IF b = I32_MIN THEN (IF a < 0 THEN a - b ELSE a + I32_MIN)
    ELSE WrapAdd(a, -b)

\* -(|x|), which is always representable
NegMag(x) == IF x > 0 THEN -x ELSE x

\* TRUE iff -(|a| * |b|) >= I32_MIN, by doubling without leaving the range
RECURSIVE NegProd(_, _)
NegProd(na, nb) ==
    \* the product -(|na| * |nb|), or 1 when it is below I32_MIN
    IF nb = 0 \/ na = 0 THEN 0
    ELSE LET h == NegProd(na, -((-nb) \div 2)) IN
         IF h = 1 THEN 1
         ELSE IF ~AddFits(h, h) THEN 1
         ELSE LET dd == h + h IN
              IF (-nb) % 2 = 0 THEN dd
              ELSE IF ~AddFits(dd, na) THEN 1 ELSE dd + na

MulFits(a, b) ==
    LET p == IF b = I32_MIN
             THEN (IF a = 0 THEN 0 ELSE IF a \in {1, -1} THEN I32_MIN ELSE 1)
             ELSE NegProd(NegMag(a), NegMag(b))
        same == (a >= 0) = (b >= 0)
    IN  p # 1 /\ (same => p # I32_MIN)

RECURSIVE WrapMul(_, _)
WrapMul(a, b) ==
    IF b = 0 THEN 0
    ELSE IF b = I32_MIN THEN (IF a % 2 = 0 THEN 0 ELSE I32_MIN)
    ELSE IF b < 0 THEN WrapNeg(WrapMul(a, -b))
    ELSE LET h == WrapMul(a, b \div 2)
             dd == WrapAdd(h, h)
         IN  IF b % 2 = 0 THEN dd ELSE WrapAdd(dd, a)

\* Rust's `/` on integers truncates toward zero
\* (defined for b # 0 and (a, b) # (I32_MIN, -1))
TruncDiv(a, b) ==
    IF b = I32_MIN THEN (IF a = I32_MIN THEN 1 ELSE 0)
    ELSE LET nb == Abs(b)
             q == IF a >= 0 THEN a \div nb ELSE (a + nb - 1) \div nb
         IN  IF b > 0 THEN q ELSE -q


\* --------------------------------------------------------- Value arithmetic

\* The result of an arithmetic method of Value: the value, or a panic.
\* `oc` says whether the build checks arithmetic overflow.
Res(x) == [val |-> x, panic |-> FALSE]
ResPanic == [val |-> VEmpty, panic |-> TRUE]

IntRes(fits, exact, wrapped, oc) ==
    IF fits THEN Res(VInt(exact))
    ELSE IF oc THEN ResPanic ELSE Res(VInt(wrapped))

add(a, b, oc) ==
    IF ~check_type_code(a, b) THEN Res(VEmpty)
    ELSE CASE a.t = "Int" ->
                IntRes(AddFits(a.v, b.v), WrapAdd(a.v, b.v), WrapAdd(a.v, b.v), oc)
           [] a.t = "Float" -> Res(VFloat(a.v * b.d + b.v * a.d, a.d * b.d))
           [] OTHER -> Res(VEmpty)

sub(a, b, oc) ==
    IF ~check_type_code(a, b) THEN Res(VEmpty)
    ELSE CASE a.t = "Int" ->
                IntRes(SubFits(a.v, b.v), WrapSub(a.v, b.v), WrapSub(a.v, b.v), oc)
           [] a.t = "Float" -> Res(VFloat(a.v * b.d - b.v * a.d, a.d * b.d))
           [] OTHER -> Res(VEmpty)

mul(a, b, oc) ==
    IF ~check_type_code(a, b) THEN Res(VEmpty)
    ELSE CASE a.t = "Int" ->
                IntRes(MulFits(a.v, b.v), WrapMul(a.v, b.v), WrapMul(a.v, b.v), oc)
           [] a.t = "Float" -> Res(VFloat(a.v * b.v, a.d * b.d))
           [] OTHER -> Res(VEmpty)

div(a, b) ==
    IF ~check_type_code(a, b) THEN Res(VEmpty)
    ELSE IF ~test(b) THEN Res(VEmpty)
    ELSE CASE a.t = "Int" ->
                IF a.v = I32_MIN /\ b.v = -1 THEN ResPanic
                ELSE Res(VInt(TruncDiv(a.v, b.v)))
           [] a.t = "Float" -> Res(VFloat(a.v * b.d, a.d * b.v))
           [] OTHER -> Res(VEmpty)

negate(x, oc) ==
    CASE x.t = "Int" -> IntRes(NegFits(x.v), WrapNeg(x.v), WrapNeg(x.v), oc)
      [] x.t = "Float" -> Res(VFloat(-x.v, x.d))
      [] OTHER -> Res(x)

increment(x, oc) ==
    CASE x.t = "Int" -> IntRes(AddFits(x.v, 1), WrapAdd(x.v, 1), WrapAdd(x.v, 1), oc)
      [] x.t = "Float" -> Res(VFloat(x.v + x.d, x.d))
      [] OTHER -> Res(x)

decrement(x, oc) ==
    CASE x.t = "Int" -> IntRes(SubFits(x.v, 1), WrapSub(x.v, 1), WrapSub(x.v, 1), oc)
      [] x.t = "Float" -> Res(VFloat(x.v - x.d, x.d))
      [] OTHER -> Res(x)

\* -------------------------------------------------------------------- heap

\* vm/heap.rs HeapValue; a Varchar is modelled by its length.
HvEmpty == [k |-> "Empty", len |-> 0, fields |-> <<>>]
HvVarchar(n) == [k |-> "Varchar", len |-> n, fields |-> <<>>]
HvInstance(fs) == [k |-> "Instance", len |-> 0, fields |-> fs]

get_overhead(hv) ==
    IF hv.k = "Varchar" THEN BASE_STRING_OVERHEAD + hv.len ELSE DUD_OVERHEAD

HeapCell(hv) == [value |-> hv, ref_count |-> 0]

is_live(cell) == cell.ref_count > 0

\* `x as i16` for 0 <= x <= 2 * I16_MAX + 1
AsI16(x) == IF x > I16_MAX THEN x - 2 * (I16_MAX + 1) ELSE x

ObjectHeap_new(max_overhead) ==
    LET checked == IF max_overhead <= MAX_HEAP_OVERHEAD
                   THEN max_overhead ELSE MAX_HEAP_OVERHEAD
        calculated_slot_n == 1 + checked \div TOTAL_STRING_OVERHEAD
    IN  [free_list |-> <<>>, entries |-> <<>>, overhead_limit |-> max_overhead,
         overhead |-> 0, slot_limit |-> AsI16(calculated_slot_n), next_id |-> 0]

is_ripe_for_sweep(h) == h.overhead > h.overhead_limit

\* entries.get(id as usize) is Some
HasCell(h, id) == id >= 0 /\ id < Len(h.entries)

get_cell(h, id) == h.entries[id + 1]

preload_cell_at(h, id, hv) ==
    IF HasCell(h, id)
    THEN [h |-> [h EXCEPT !.entries[id + 1].value = hv], ok |-> TRUE]
    ELSE [h |-> h, ok |-> FALSE]

try_create_cell(h, tag) ==
    LET reclaimed == h.free_list # <<>>
        id == IF reclaimed THEN Head(h.free_list)
              ELSE IF h.next_id <= h.slot_limit THEN h.next_id + 1
              ELSE -1
        h1 == IF reclaimed THEN [h EXCEPT !.free_list = Tail(@)]
              ELSE IF h.next_id <= h.slot_limit THEN [h EXCEPT !.next_id = @ + 1]
              ELSE h
        temp == HvVarchar(0)
    IN  IF id # -1 /\ tag = "Varchar"
        THEN IF ~reclaimed
             THEN [h |-> [h1 EXCEPT !.entries = Append(@, HeapCell(temp)),
                                    !.overhead = @ + get_overhead(temp)],
                   id |-> id, panic |-> FALSE]
             ELSE IF HasCell(h1, id)
             THEN [h |-> [h1 EXCEPT !.entries[id + 1] = HeapCell(temp),
                                    !.overhead = @ + get_overhead(temp)],
                   id |-> id, panic |-> FALSE]
             ELSE [h |-> h1, id |-> id, panic |-> TRUE]
        ELSE [h |-> h1, id |-> id, panic |-> FALSE]

InList(list, x) == \E i \in 1..Len(list) : list[i] = x

\* Returns the heap and whether an `unwrap` of a missing cell panicked.
\* `found` is the outcome of free_list.binary_search(&id).is_ok().
try_collect_cell_with(h, id, found) ==
    IF found \/ id >= h.next_id THEN [h |-> h, panic |-> FALSE]
    ELSE IF ~HasCell(h, id) THEN [h |-> h, panic |-> TRUE]
    ELSE IF is_live(get_cell(h, id)) THEN [h |-> h, panic |-> FALSE]
    ELSE LET dec == get_overhead(get_cell(h, id).value) IN
         IF dec > h.overhead THEN [h |-> h, panic |-> TRUE]
         ELSE [h |-> [h EXCEPT !.overhead = @ - dec,
                               !.entries[id + 1] = HeapCell(HvEmpty),
                               !.next_id = IF id = @ - 1 THEN @ - 1 ELSE @,
                               !.free_list = <<id>> \o @],
               panic |-> FALSE]

\* The binary search is exact on a sorted free list (the only lists an engine
\* run produces, which hold at most one id).
try_collect_cell(h, id) == try_collect_cell_with(h, id, InList(h.free_list, id))

\* A variant of force_collect_all that forgets the cells.
force_collect_counters_only(h) ==
    [h EXCEPT !.free_list = <<>>, !.overhead = 0, !.next_id = 0]

force_collect_all(h) ==
    [h EXCEPT !.entries = <<>>, !.free_list = <<>>, !.overhead = 0, !.next_id = 0]


\* ------------------------------------------------------------------ engine

VARIABLES
    heap,       \* ObjectHeap
    frames,     \* the CallFrame deque, back = last
    stack,      \* the operand stack, slot i at stack[i + 1]
    rpid, rip, rbp, rsp,
    status,     \* ExecStatus
    phase,      \* "running", "native" (inside a native), "returned", "aborted"
    nat,        \* the ExecStatus a native is about to return
    constants,  \* the constant pool of the running program's chunks
    steps,      \* instructions executed so far
    calls,      \* history: per frame, the caller's registers when the call
                \* that made the frame was fetched
    last        \* history: the entry of `calls` whose frame the last step
                \* popped, if it popped one

engine_vars == <<heap, frames, stack, rpid, rip, rbp, rsp, status, phase, nat,
                 constants, steps, calls, last>>

\* The bytecode emitter (codegen/bytecode_emitter.rs) at work on a program.
VARIABLES
    cfg_list,           \* the CFGs handed to generate_bytecode
    cfg_id,             \* the CFG being converted
    pending_node_ids,
    pending_patches,
    temp_instructions,
    done_ids,
    chunks,             \* the code of the procedures emitted so far
    epc                 \* "off", "next", "loop", "done", "aborted"

emitter_vars == <<cfg_list, cfg_id, pending_node_ids, pending_patches,
                  temp_instructions, done_ids, chunks, epc>>

\* The front end at work on the declarations of a program: the semantic
\* analyzer (semantics/analyzer.rs, driven by compiler/driver.rs) and the
\* registration of procedures by the IR emitter (codegen/ir_emitter.rs).
VARIABLES
    full_ast,           \* the top-level declarations, in visiting order
    analyzer,           \* the Analyzer
    sema_pc,            \* where step_sema is: stage, pass, declaration, ...
    ir_emitter,         \* the IREmitter and where emit_all_ir is
    loader              \* step_parse: the files, the frontier, what was read

front_vars == <<full_ast, analyzer, sema_pc, ir_emitter, loader>>

vars == <<engine_vars, emitter_vars, front_vars>>

FrontOff ==
    /\ full_ast = <<>> /\ analyzer = <<>>
    /\ sema_pc = [stage |-> "off"] /\ ir_emitter = [stage |-> "off"]
    /\ loader = [stage |-> "off"]

\* Engine::new makes the stack of stack_size slots.
stack_limit == Len(stack)

\* The engine as a record, so that the helpers of a handler compose.
Eng == [heap |-> heap, frames |-> frames, stack |-> stack, rpid |-> rpid,
        rip |-> rip, rbp |-> rbp, rsp |-> rsp, status |-> status,
        phase |-> phase]

Commit(e) ==
    /\ heap' = e.heap
    /\ frames' = e.frames
    /\ stack' = e.stack
    /\ rpid' = e.rpid
    /\ rip' = e.rip
    /\ rbp' = e.rbp
    /\ rsp' = e.rsp
    /\ status' = e.status
    /\ phase' = e.phase

Alive(e) == e.phase # "aborted"
Panic(e) == [e EXCEPT !.phase = "aborted"]
SetStatus(e, st) == IF Alive(e) THEN [e EXCEPT !.status = st] ELSE e

\* stack.get(i) is Some
InStack(i) == i >= 0 /\ i < stack_limit
StackAt(e, i) == e.stack[i + 1]
SetSlot(e, i, x) == [e EXCEPT !.stack[i + 1] = x]

Back(e) == e.frames[Len(e.frames)]

CallFrame(args, id, pos, old, inst) ==
    [callee_args |-> args, caller_id |-> id, caller_pos |-> pos,
     old_rbp |-> old, opt_instance |-> inst]

inc_rc(e, id) == [e EXCEPT !.heap.entries[id + 1].ref_count = @ + 1]
dec_rc(e, id) == [e EXCEPT !.heap.entries[id + 1].ref_count = @ - 1]

AdvanceRip(e) == IF Alive(e) THEN [e EXCEPT !.rip = @ + 1] ELSE e

push_in(e, temp) ==
    IF ~Alive(e) THEN e
    ELSE IF e.rsp > stack_limit THEN SetStatus(e, "AccessError")
    ELSE LET e1 == [e EXCEPT !.rsp = @ + 1] IN
         IF e1.rsp > stack_limit THEN SetStatus(e1, "AccessError")
         ELSE LET e2 == IF temp.t = "HeapRef"
                        THEN IF HasCell(e1.heap, temp.v) THEN inc_rc(e1, temp.v)
                             ELSE SetStatus(e1, "RefError")
                        ELSE e1
              IN  IF InStack(e2.rsp) THEN SetSlot(e2, e2.rsp, temp) ELSE Panic(e2)

\* Returns the engine and the Option<Value>.
pop_off(e) ==
    IF ~Alive(e) THEN [e |-> e, val |-> NoneV]
    ELSE IF e.rsp < 0 THEN [e |-> SetStatus(e, "AccessError"), val |-> NoneV]
    ELSE IF ~InStack(e.rsp) THEN [e |-> Panic(e), val |-> NoneV]
    ELSE LET temp == StackAt(e, e.rsp)
             e1 == [e EXCEPT !.rsp = @ - 1]
             e2 == IF temp.t = "HeapRef"
                   THEN IF HasCell(e1.heap, temp.v) THEN dec_rc(e1, temp.v)
                        ELSE SetStatus(e1, "RefError")
                   ELSE e1
         IN  [e |-> e2, val |-> temp]

fetch_constant(const_id) == constants[const_id + 1]

fetch_stack_temp(e, base_offset) == StackAt(e, e.rbp + base_offset)

fetch_stored_arg(e, arg_id) == Back(e).callee_args[arg_id + 1]

\* The heap id read through the frame's instance slot, -1 if not a HeapRef.
instance_heap_id(e) ==
    LET ref == fetch_stack_temp(e, Back(e).opt_instance) IN
    IF ref.t = "HeapRef" THEN ref.v ELSE -1

\* get_cell(id).unwrap().try_ref_instance_field(k).unwrap() does not panic
HasField(e, id, k) ==
    /\ HasCell(e.heap, id)
    /\ get_cell(e.heap, id).value.k = "Instance"
    /\ k >= 0 /\ k < Len(get_cell(e.heap, id).value.fields)

PanicV == Val("Panic", 0)

fetch_inst_field(e, arg_id) ==
    LET id == instance_heap_id(e) IN
    IF HasField(e, id, arg_id) THEN get_cell(e.heap, id).value.fields[arg_id + 1]
    ELSE PanicV

\* Some(value), NoneV for None, PanicV when the fetch panics.
fetch_value_by(e, arg) ==
    CASE arg[1] = "ConstantId" -> fetch_constant(arg[2])
      [] arg[1] = "StackOffset" -> fetch_stack_temp(e, arg[2])
      [] arg[1] = "ArgumentId" -> fetch_stored_arg(e, arg[2])
      [] arg[1] = "InstanceFieldId" -> fetch_inst_field(e, arg[2])
      [] OTHER -> NoneV

\* The operand can be fetched without an out-of-bounds `get_unchecked`
\* (undefined behaviour) and without an out-of-range constant id.
FetchDefined(e, arg) ==
    CASE arg[1] = "ConstantId" -> arg[2] >= 0 /\ arg[2] < Len(constants)
      [] arg[1] = "StackOffset" -> InStack(e.rbp + arg[2])
      [] arg[1] = "ArgumentId" ->
            arg[2] >= 0 /\ arg[2] < Len(Back(e).callee_args)
      [] arg[1] = "InstanceFieldId" -> InStack(e.rbp + Back(e).opt_instance)
      [] OTHER -> TRUE

make_heap_value(e, tag) ==
    IF tag = "Varchar"
    THEN LET c == try_create_cell(e.heap, tag)
             e1 == [e EXCEPT !.heap = c.h]
         IN  IF c.panic THEN [e |-> Panic(e1), ok |-> FALSE]
             ELSE IF c.id # -1 THEN [e |-> push_in(e1, VHeapRef(c.id)), ok |-> TRUE]
             ELSE [e |-> e1, ok |-> FALSE]
    ELSE [e |-> e, ok |-> FALSE]

RECURSIVE SweepFrom(_, _)
SweepFrom(e, i) ==
    IF i > Len(e.stack) \/ ~Alive(e) THEN e
    ELSE LET x == e.stack[i] IN
         IF x.t = "HeapRef"
         THEN LET c == try_collect_cell(e.heap, x.v)
                  e1 == [e EXCEPT !.heap = c.h]
              IN  SweepFrom(IF c.panic THEN Panic(e1) ELSE e1, i + 1)
         ELSE SweepFrom(e, i + 1)

try_sweep(e) ==
    IF ~Alive(e) \/ ~is_ripe_for_sweep(e.heap) THEN e ELSE SweepFrom(e, 1)

last_sweep(e) == [e EXCEPT !.heap = force_collect_all(@)]

\* ------------------------------------------------------------ instructions
\* An Argument is <<mode, n>>.

do_nop(e) == AdvanceRip(e)

do_load_const(e, const_id) == AdvanceRip(push_in(e, fetch_constant(const_id[2])))

do_push(e, source) ==
    LET pushing_item == fetch_value_by(e, source) IN
    IF pushing_item = PanicV THEN Panic(e)
    ELSE IF e.rsp > stack_limit THEN SetStatus(e, "AccessError")
    ELSE IF pushing_item # NoneV
    THEN IF InStack(e.rsp + 1)
         THEN AdvanceRip([SetSlot(e, e.rsp + 1, pushing_item) EXCEPT !.rsp = @ + 1])
         ELSE Panic(e)
    ELSE SetStatus(e, "AccessError")

do_pop(e) ==
    IF e.rsp <= 0 THEN SetStatus(e, "ValueError")
    ELSE AdvanceRip([e EXCEPT !.rsp = @ - 1])

do_make_heap_value(e, arg) ==
    LET arg_tag == IF arg[2] = 0 THEN "Varchar" ELSE "None"
        m == make_heap_value(e, arg_tag)
    IN  IF ~m.ok THEN SetStatus(m.e, "RefError") ELSE AdvanceRip(m.e)

Empties(n) == [i \in 1..n |-> VEmpty]

do_make_heap_object(e, arg) ==
    LET c == try_create_cell(e.heap, "Instance")
        pre == preload_cell_at(c.h, c.id, HvInstance(Empties(arg[2])))
        e1 == [e EXCEPT !.heap = pre.h]
    IN  IF ~pre.ok THEN SetStatus(e1, "RefError")
        ELSE LET e2 == push_in(e1, VHeapRef(c.id)) IN
             AdvanceRip([e2 EXCEPT !.frames[Len(e2.frames)].opt_instance = e2.rsp])

do_replace(e, target, source) ==
    LET target_slot == target[2]
        incoming == fetch_value_by(e, source)
        instance_slot_id == Back(e).opt_instance
        has_object_field == target[1] = "InstanceFieldId" /\ instance_slot_id # -1
        id == instance_heap_id(e)
    IN  IF incoming = PanicV THEN Panic(e)
        ELSE IF incoming = NoneV THEN SetStatus(e, "AccessError")
        ELSE IF ~has_object_field THEN AdvanceRip(SetSlot(e, target_slot, incoming))
        ELSE IF HasField(e, id, target_slot)
        THEN AdvanceRip([e EXCEPT
                 !.heap.entries[id + 1].value.fields[target_slot + 1] = incoming])
        ELSE Panic(e)

\* The operands of Replace are in bounds for the unchecked accesses.
ReplaceDefined(e, target, source) ==
    /\ FetchDefined(e, source)
    /\ IF target[1] = "InstanceFieldId" /\ Back(e).opt_instance # -1
       THEN InStack(e.rbp + Back(e).opt_instance)
       ELSE InStack(target[2])

\* Neg, Inc and Dec: store the result `r` in the slot rbp + target.1.
UnaryInPlace(e, target, r) ==
    IF r.panic THEN Panic(e)
    ELSE AdvanceRip(SetSlot(e, e.rbp + target[2], r.val))

do_neg(e, target, oc) ==
    IF target[1] # "StackOffset" THEN SetStatus(e, "AccessError")
    ELSE UnaryInPlace(e, target, negate(StackAt(e, e.rbp + target[2]), oc))

do_inc(e, target, oc) ==
    IF target[1] # "StackOffset" THEN SetStatus(e, "AccessError")
    ELSE UnaryInPlace(e, target, increment(StackAt(e, e.rbp + target[2]), oc))

do_dec(e, target, oc) ==
    IF target[1] # "StackOffset" THEN SetStatus(e, "AccessError")
    ELSE UnaryInPlace(e, target, decrement(StackAt(e, e.rbp + target[2]), oc))

\* The two pops that open every binary instruction: rhs first, then lhs.
PopTwo(e) ==
    LET r == pop_off(e)
        l == pop_off(r.e)
    IN  [e |-> l.e, lhs |-> l.val, rhs |-> r.val,
         none |-> l.val = NoneV \/ r.val = NoneV]

PushRes(e, r) == IF r.panic THEN Panic(e) ELSE AdvanceRip(push_in(e, r.val))

do_add(e, oc) ==
    LET p == PopTwo(e) IN
    IF p.none THEN SetStatus(p.e, "AccessError")
    ELSE PushRes(p.e, add(p.lhs, p.rhs, oc))

do_sub(e, oc) ==
    LET p == PopTwo(e) IN
    IF p.none THEN SetStatus(p.e, "AccessError")
    ELSE PushRes(p.e, sub(p.lhs, p.rhs, oc))

do_mul(e, oc) ==
    LET p == PopTwo(e) IN
    IF p.none THEN SetStatus(p.e, "AccessError")
    ELSE PushRes(p.e, mul(p.lhs, p.rhs, oc))

do_div(e) ==
    LET p == PopTwo(e)
        q == div(p.lhs, p.rhs)
    IN  IF p.none THEN SetStatus(p.e, "AccessError")
        ELSE IF q.panic THEN Panic(p.e)
        ELSE IF q.val = VEmpty THEN SetStatus(p.e, "BadMath")
        ELSE AdvanceRip(push_in(p.e, q.val))

do_cmp_eq(e) ==
    LET p == PopTwo(e) IN
    IF p.none THEN SetStatus(p.e, "AccessError")
    ELSE AdvanceRip(push_in(p.e, VBool(is_equal(p.lhs, p.rhs))))

do_cmp_ne(e) ==
    LET p == PopTwo(e) IN
    IF p.none THEN SetStatus(p.e, "AccessError")
    ELSE AdvanceRip(push_in(p.e, VBool(is_unequal(p.lhs, p.rhs))))

do_cmp_lt(e) ==
    LET p == PopTwo(e) IN
    IF p.none THEN SetStatus(p.e, "AccessError")
    ELSE AdvanceRip(push_in(p.e, VBool(is_lesser(p.lhs, p.rhs))))

do_cmp_gt(e) ==
    LET p == PopTwo(e) IN
    IF p.none THEN SetStatus(p.e, "AccessError")
    ELSE AdvanceRip(push_in(p.e, VBool(is_greater(p.lhs, p.rhs))))

do_jump_if(e, tst, jump_to) ==
    LET test_value == fetch_value_by(e, tst) IN
    IF test_value = PanicV THEN Panic(e)
    ELSE IF test_value = NoneV THEN SetStatus(e, "AccessError")
    ELSE IF jump_to[1] # "CodeOffset" THEN SetStatus(e, "BadArgs")
    ELSE [e EXCEPT !.rip = IF test(test_value) THEN jump_to[2] ELSE @ + 1,
                   !.rsp = @ - 1]

do_jump_else(e, tst, jump_to) ==
    LET test_value == fetch_value_by(e, tst) IN
    IF test_value = PanicV THEN Panic(e)
    ELSE IF test_value = NoneV THEN SetStatus(e, "AccessError")
    ELSE IF jump_to[1] # "CodeOffset" THEN SetStatus(e, "BadArgs")
    ELSE [e EXCEPT !.rip = IF ~test(test_value) THEN jump_to[2] ELSE @ + 1,
                   !.rsp = @ - 1]

do_jump(e, jump_to) ==
    IF jump_to[1] # "CodeOffset" THEN SetStatus(e, "BadArgs")
    ELSE [e EXCEPT !.rip = jump_to[2]]

PopFrame(e) ==
    [e EXCEPT !.rpid = Back(e).caller_id, !.rip = Back(e).caller_pos,
              !.rsp = e.rbp, !.rbp = Back(e).old_rbp,
              !.frames = SubSeq(@, 1, Len(@) - 1)]

do_return(e, source) ==
    LET result == fetch_value_by(e, source) IN
    IF result = PanicV THEN Panic(e)
    ELSE IF result = NoneV THEN SetStatus(e, "AccessError")
    ELSE IF ~InStack(e.rbp) THEN Panic(e)
    ELSE PopFrame(SetSlot(e, e.rbp, result))

do_leave(e) == PopFrame(e)

\* The loop of do_call / do_instance_call that moves `n` arguments from the
\* stack into the callee's argument store; the first popped is the last one.
RECURSIVE PopArgs(_, _, _)
PopArgs(e, n, acc) ==
    IF n = 0 THEN [e |-> e, args |-> acc, ok |-> TRUE]
    ELSE LET p == pop_off(e) IN
         IF p.val = NoneV
         THEN [e |-> SetStatus(p.e, "AccessError"), args |-> acc, ok |-> FALSE]
         ELSE PopArgs(p.e, n - 1, <<p.val>> \o acc)

\* A variant of do_call whose new frame base is the caller's top slot.
do_call_base_on_top(e, procedure_id, arg_count) ==
    IF procedure_id[1] # "ProcedureId" THEN SetStatus(e, "BadArgs")
    ELSE LET a == PopArgs(e, arg_count[2], <<>>) IN
         IF ~a.ok THEN a.e
         ELSE [a.e EXCEPT
                 !.frames = Append(@, CallFrame(a.args, e.rpid, e.rip + 1, e.rbp, -1)),
                 !.rpid = procedure_id[2], !.rip = 0, !.rbp = a.e.rsp]

\* A variant of do_call that stores the arguments in the order they are popped.
do_call_args_as_popped(e, procedure_id, arg_count) ==
    IF procedure_id[1] # "ProcedureId" THEN SetStatus(e, "BadArgs")
    ELSE LET a == PopArgs(e, arg_count[2], <<>>) IN
         IF ~a.ok THEN a.e
         ELSE [a.e EXCEPT
                 !.frames = Append(@, CallFrame([i \in 1..Len(a.args) |->
                                                   a.args[Len(a.args) + 1 - i]],
                                                e.rpid, e.rip + 1, e.rbp, -1)),
                 !.rpid = procedure_id[2], !.rip = 0, !.rbp = a.e.rsp + 1]

do_call(e, procedure_id, arg_count) ==
    IF procedure_id[1] # "ProcedureId" THEN SetStatus(e, "BadArgs")
    ELSE LET a == PopArgs(e, arg_count[2], <<>>) IN
         IF ~a.ok THEN a.e
         ELSE [a.e EXCEPT
                 !.frames = Append(@, CallFrame(a.args, e.rpid, e.rip + 1, e.rbp, -1)),
                 !.rpid = procedure_id[2], !.rip = 0, !.rbp = a.e.rsp + 1]

do_instance_call(e, instance_arg, fun_id_arg, args_n) ==
    LET instance_ref_stk_slot == e.rbp + instance_arg[2] IN
    IF ~InStack(instance_ref_stk_slot) THEN Panic(e)
    ELSE IF fun_id_arg[1] # "ProcedureId" THEN SetStatus(e, "BadArgs")
    ELSE LET instance_ref_copy == StackAt(e, instance_ref_stk_slot)
             a == PopArgs(e, args_n[2], <<>>)
         IN  IF ~a.ok THEN a.e
             ELSE LET e1 == [a.e EXCEPT !.rpid = fun_id_arg[2], !.rip = 0,
                                        !.rbp = a.e.rsp + 1]
                      e2 == push_in(e1, instance_ref_copy)
                  IN  IF ~Alive(e2) THEN e2
                      ELSE [e2 EXCEPT !.frames =
                              Append(@, CallFrame(a.args, e.rpid, e.rip + 1, e.rbp, 0))]

\* ---------------------------------------------------------------- natives
\* A native returns the engine it leaves and the ExecStatus it returns.

NativeRes(e, st) == [e |-> e, ret |-> st]

\* utils/loxie_stdio.rs; `input` is what stdin delivers: k = "int" with the
\* parsed i32, "bad" for a line that does not parse, "eof" for a failed read.
native_read_int(e, input) ==
    IF input.k = "eof" THEN NativeRes(e, "NotOk")
    ELSE IF input.k = "bad" THEN NativeRes(e, "BadArgs")
    ELSE NativeRes(push_in(e, VInt(input.v)), "Ok")

native_print_val(e) ==
    LET p == pop_off(e) IN
    IF p.val = NoneV THEN NativeRes(push_in(p.e, VBool(FALSE)), "NotOk")
    ELSE NativeRes(push_in(p.e, VBool(TRUE)), "Ok")

try_varchar_len(hv) == IF hv.k = "Varchar" THEN hv.len ELSE -1

\* Returns the engine and the Option<HeapValue> (HvNone for None).
HvNone == [k |-> "None", len |-> 0, fields |-> <<>>]

fetch_heap_value_by(e, arg) ==
    IF arg[1] # "StackOffset" THEN [e |-> SetStatus(e, "BadArgs"), hv |-> HvNone]
    ELSE IF HasCell(e.heap, arg[2])
    THEN [e |-> e, hv |-> get_cell(e.heap, arg[2]).value]
    ELSE [e |-> e, hv |-> HvNone]

\* utils/loxie_varchar.rs
native_intrin_varchar_len(e) ==
    LET p == pop_off(e) IN
    IF p.val = NoneV THEN NativeRes(p.e, "RefError")
    ELSE LET f == fetch_heap_value_by(p.e,
                     <<"HeapId", IF p.val.t = "HeapRef" THEN p.val.v ELSE -1>>)
             vc_len == try_varchar_len(IF f.hv = HvNone THEN HvEmpty ELSE f.hv)
         IN  NativeRes(push_in(f.e, VInt(vc_len)), "Ok")

\* The ids under which main.rs registers the natives.
ID_VARCHAR_LEN == 0
ID_READ_INT == 5
ID_PRINT_VAL == 6

get_native(native_id, e, input) ==
    CASE native_id = ID_VARCHAR_LEN -> native_intrin_varchar_len(e)
      [] native_id = ID_READ_INT -> native_read_int(e, input)
      [] native_id = ID_PRINT_VAL -> native_print_val(e)

\* do_native_call after the native has returned `ret`.
do_native_call(e, ret) == AdvanceRip([e EXCEPT !.status = ret])

\* A variant of is_done that overlooks the status.
is_done_by_frames_only(e) == e.frames = <<>>

is_done(e) == e.frames = <<>> \/ e.status # "Ok"

\* ------------------------------------------------------------ the inputs

LOXIM_HEAP_OVERHEAD_DEFAULT == TOTAL_STRING_OVERHEAD * 128

\* The heap sizes given to Engine::new: none, and the default of main.rs.
HeapSizes == {0, LOXIM_HEAP_OVERHEAD_DEFAULT}

\* The constant pools of the programs run (one pool for all procedures).
Pools == { <<VInt(0), VBool(TRUE), VHeapRef(0)>>,
           <<VInt(I32_MIN), VInt(-1), VFloat(0, 1)>> }

ConstIds == 0..(Len(constants) - 1)
Offsets == 0..(StackLimit - 1)
Arities == 0..2
ProcIds == {1}
CodeOffsets == {0}
FieldCounts == 0..1
ReadInputs == {[k |-> "int", v |-> 0],
               [k |-> "bad", v |-> 0], [k |-> "eof", v |-> 0]}
NativeIds == {ID_VARCHAR_LEN, ID_READ_INT, ID_PRINT_VAL}

\* The operands a value can be fetched by, and one of a mode that cannot.
Sources ==
    ({"ConstantId"} \X ConstIds) \cup ({"StackOffset"} \X Offsets)
        \cup ({"ArgumentId"} \X (0..1)) \cup ({"InstanceFieldId"} \X {0})
        \cup {<<"Dud", 0>>}
Targets == ({"StackOffset", "InstanceFieldId"} \X Offsets)
SlotArgs == ({"StackOffset"} \X Offsets) \cup {<<"Dud", 0>>}
JumpArgs == ({"CodeOffset"} \X CodeOffsets) \cup {<<"Dud", 0>>}
ProcArgs == ({"ProcedureId"} \X ProcIds) \cup {<<"Dud", 0>>}

\* ------------------------------------------------------------- Engine::run

\* An entry of the call history: `kind` is the instruction that made the
\* frame, `by` the one that popped it; rsp is the caller's rsp before the
\* arguments of the call were pushed.
NoCall == [kind |-> "None", by |-> "None", rpid |-> 0, rip |-> 0, rbp |-> 0, rsp |-> 0]
CallRec(k, arity) ==
    [kind |-> k, by |-> "None", rpid |-> rpid, rip |-> rip, rbp |-> rbp,
     rsp |-> rsp - arity]
PoppedBy(k) == [NoCall EXCEPT !.by = k]

\* Engine::new on a program without heap preloadables; `has_main` says
\* whether the program has an entry procedure.
EngineInit ==
    /\ constants \in Pools
    /\ \E heap_size \in HeapSizes : heap = ObjectHeap_new(heap_size)
    /\ \E has_main \in BOOLEAN :
          /\ frames = IF has_main THEN <<CallFrame(<<>>, 0, 0, 0, -1)>> ELSE <<>>
          /\ rpid = IF has_main THEN 0 ELSE -1
          /\ calls = IF has_main THEN <<[NoCall EXCEPT !.kind = "Entry"]>> ELSE <<>>
    /\ stack = Empties(StackLimit)
    /\ rip = 0 /\ rbp = 0 /\ rsp = -1
    /\ status = "Ok"
    /\ phase = "running" /\ nat = "Ok" /\ steps = 0
    /\ last = NoCall

EmitterOff ==
    /\ cfg_list = <<>> /\ cfg_id = 0
    /\ pending_node_ids = <<>> /\ pending_patches = <<>>
    /\ temp_instructions = <<>> /\ done_ids = {} /\ chunks = <<>>
    /\ epc = "off"

Init == EngineInit /\ EmitterOff /\ FrontOff

\* The loop of run() is about to fetch an instruction.
Fetch == phase = "running" /\ ~is_done(Eng) /\ steps < MaxSteps

\* The history of calls follows the frame deque.
\* `rec` describes the caller when the instruction was a call.
CallsAfter(e, rec) ==
    IF Len(e.frames) > Len(frames) THEN Append(calls, rec)
    ELSE IF Len(e.frames) < Len(frames) THEN SubSeq(calls, 1, Len(calls) - 1)
    ELSE calls

LastAfter(e, rec) ==
    IF Len(e.frames) < Len(frames)
    THEN [calls[Len(calls)] EXCEPT !.by = rec.by] ELSE NoCall

\* One iteration of the loop: the handler's outcome `e`, then try_sweep.
Exec(e, rec) ==
    /\ Commit(try_sweep(e))
    /\ steps' = steps + 1
    /\ calls' = CallsAfter(e, rec)
    /\ last' = LastAfter(e, rec)
    /\ UNCHANGED <<constants, nat, emitter_vars, front_vars>>

Nop == Fetch /\ Exec(do_nop(Eng), NoCall)

LoadConstStep(c) == Fetch /\ Exec(do_load_const(Eng, <<"ConstantId", c>>), NoCall)

LoadConst == \E c \in ConstIds : LoadConstStep(c)

Push ==
    /\ Fetch
    /\ \E src \in Sources :
          FetchDefined(Eng, src) /\ Exec(do_push(Eng, src), NoCall)

PopStep == Fetch /\ Exec(do_pop(Eng), NoCall)

Pop == PopStep

MakeHeapValue ==
    /\ Fetch
    /\ \E tag \in 0..1 : Exec(do_make_heap_value(Eng, <<"Dud", tag>>), NoCall)

MakeHeapObjectStep(n) ==
    Fetch /\ Exec(do_make_heap_object(Eng, <<"Dud", n>>), NoCall)

MakeHeapObject == \E n \in FieldCounts : MakeHeapObjectStep(n)

ReplaceStep(target, src) ==
    /\ Fetch
    /\ ReplaceDefined(Eng, target, src)
    /\ Exec(do_replace(Eng, target, src), NoCall)

Replace == \E target \in Targets, src \in Sources : ReplaceStep(target, src)

SlotDefined(arg) == arg[1] = "StackOffset" => InStack(rbp + arg[2])

Neg ==
    /\ Fetch
    /\ \E target \in SlotArgs, oc \in BOOLEAN :
          SlotDefined(target) /\ Exec(do_neg(Eng, target, oc), NoCall)

Inc ==
    /\ Fetch
    /\ \E target \in SlotArgs, oc \in BOOLEAN :
          SlotDefined(target) /\ Exec(do_inc(Eng, target, oc), NoCall)

Dec ==
    /\ Fetch
    /\ \E target \in SlotArgs, oc \in BOOLEAN :
          SlotDefined(target) /\ Exec(do_dec(Eng, target, oc), NoCall)

Add == Fetch /\ \E oc \in BOOLEAN : Exec(do_add(Eng, oc), NoCall)
Sub == Fetch /\ \E oc \in BOOLEAN : Exec(do_sub(Eng, oc), NoCall)
Mul == Fetch /\ \E oc \in BOOLEAN : Exec(do_mul(Eng, oc), NoCall)
Div == Fetch /\ Exec(do_div(Eng), NoCall)
CompareEq == Fetch /\ Exec(do_cmp_eq(Eng), NoCall)
CompareNe == Fetch /\ Exec(do_cmp_ne(Eng), NoCall)
CompareLt == Fetch /\ Exec(do_cmp_lt(Eng), NoCall)
CompareGt == Fetch /\ Exec(do_cmp_gt(Eng), NoCall)

JumpIf ==
    /\ Fetch
    /\ \E tst \in Sources, jump_to \in JumpArgs :
          FetchDefined(Eng, tst) /\ Exec(do_jump_if(Eng, tst, jump_to), NoCall)

JumpElse ==
    /\ Fetch
    /\ \E tst \in Sources, jump_to \in JumpArgs :
          FetchDefined(Eng, tst) /\ Exec(do_jump_else(Eng, tst, jump_to), NoCall)

Jump == Fetch /\ \E jump_to \in JumpArgs : Exec(do_jump(Eng, jump_to), NoCall)

ReturnStep(src) ==
    Fetch /\ FetchDefined(Eng, src) /\ Exec(do_return(Eng, src), PoppedBy("Return"))

Return == \E src \in Sources : ReturnStep(src)

Leave == Fetch /\ Exec(do_leave(Eng), PoppedBy("Leave"))

CallStep(proc, arity) ==
    /\ Fetch /\ Len(frames) < MaxFrames
    /\ Exec(do_call(Eng, proc, <<"Dud", arity>>), CallRec("Call", arity))

Call == \E proc \in ProcArgs, arity \in Arities : CallStep(proc, arity)

InstanceCall ==
    /\ Fetch /\ Len(frames) < MaxFrames
    /\ \E slot \in Offsets, proc \in ProcArgs, arity \in Arities :
          Exec(do_instance_call(Eng, <<"StackOffset", slot>>, proc, <<"Dud", arity>>),
               CallRec("InstanceCall", arity))

\* NativeCall, first half: the native runs and is about to return `nat`.
NativeCall ==
    /\ Fetch
    /\ \E id \in NativeIds, input \in ReadInputs :
          LET r == get_native(id, Eng, input) IN
          /\ Commit(IF Alive(r.e) THEN [r.e EXCEPT !.phase = "native"] ELSE r.e)
          /\ nat' = r.ret
    /\ steps' = steps + 1
    /\ last' = NoCall
    /\ UNCHANGED <<constants, calls, emitter_vars, front_vars>>

\* NativeCall, second half: do_native_call stores the returned status.
NativeReturn ==
    /\ phase = "native"
    /\ Commit(try_sweep(do_native_call([Eng EXCEPT !.phase = "running"], nat)))
    /\ nat' = "Ok"
    /\ last' = NoCall
    /\ UNCHANGED <<constants, steps, calls, emitter_vars, front_vars>>

\* The tail of run(): the loop is over, the status is returned.
Finish ==
    /\ phase = "running" /\ is_done(Eng)
    /\ LET e1 == last_sweep(Eng)
           zero_ok == VInt(0)
           e2 == IF e1.status = "Ok" /\ ~is_equal(StackAt(e1, 0), zero_ok)
                 THEN SetStatus(e1, "NotOk") ELSE e1
       IN  Commit([e2 EXCEPT !.phase = "returned"])
    /\ last' = NoCall
    /\ UNCHANGED <<constants, nat, steps, calls, emitter_vars, front_vars>>

Next ==
    \/ Nop \/ LoadConst \/ Push \/ Pop
    \/ MakeHeapValue \/ MakeHeapObject \/ Replace
    \/ Neg \/ Inc \/ Dec
    \/ Add \/ Sub \/ Mul \/ Div
    \/ CompareEq \/ CompareNe \/ CompareLt \/ CompareGt
    \/ JumpIf \/ JumpElse \/ Jump
    \/ Return \/ Leave \/ Call \/ InstanceCall
    \/ NativeCall \/ NativeReturn
    \/ Finish

Spec == Init /\ [][Next]_vars

\* ----------------------------------------------------------------- helpers

\* The value of a set with one element; Only({e(r) : r \in {v}}) is e with r
\* standing for the value v.
Only(S) == CHOOSE x \in S : TRUE

\* A map with an explicit key set, as a HashMap.
NoEntries == <<>>
HasKey(map, k) == k \in DOMAIN map
Insert(map, k, v) == IF HasKey(map, k) THEN [map EXCEPT ![k] = v] ELSE map @@ (k :> v)

\* ------------------------------------------------------- IREmitter constants
\* codegen/ir_emitter.rs record_proto_constant on the pool of the procedure
\* being lowered.

\* The position of the first entry of the pool that is_equal to the item,
\* counted from 0, or -1.
RECURSIVE scan_pool(_, _, _)
scan_pool(pool, item, proto_id) ==
    IF proto_id >= Len(pool) THEN -1
    ELSE IF is_equal(pool[proto_id + 1], item) THEN proto_id
    ELSE scan_pool(pool, item, proto_id + 1)

\* record_proto_constant without the scan: it always appends.
record_proto_constant_unscanned(pool, item) ==
    [pool |-> Append(pool, item), locator |-> <<"Immediate", Len(pool)>>]

\* The pool and the locator returned.
record_proto_constant(pool, item) ==
    LET found == scan_pool(pool, item, 0) IN
    IF found # -1 THEN [pool |-> pool, locator |-> <<"Immediate", found>>]
    ELSE [pool |-> Append(pool, item), locator |-> <<"Immediate", Len(pool)>>]

\* ------------------------------------------------------------ IR lowering
\* codegen/ir_emitter.rs on the body of one procedure made of variable
\* declarations, expression statements, if, if/else, while and return.
\* An expression is a literal, a name or a binary expression.  A statement
\* is [k, a, b, e, name]: k is "Expr", "Let", "Return", "If" or "While", e
\* the expression (the check of an if or a while), a the (true) body, b the
\* else body (<<>> when there is none), name the declared variable.

MaxDepth == 2
MaxSeq == 2
MaxInner == 1

Expr(k, op, val, name, lhs, rhs) ==
    [k |-> k, op |-> op, val |-> val, name |-> name, lhs |-> lhs, rhs |-> rhs]

\* Primitive with a literal token, Primitive with an Identifier token, Binary.
Literal(v) == Expr("Literal", "Noop", v, "", <<>>, <<>>)
Identifier(n) == Expr("Identifier", "Noop", VEmpty, n, <<>>, <<>>)
BinaryExpr(op, lhs, rhs) == Expr("Binary", op, VEmpty, "", <<lhs>>, <<rhs>>)
\* Call of a named function; lhs holds the arguments.
CallExpr(name, args) == Expr("Call", "Call", VEmpty, name, args, <<>>)

Stmt(k, a, b) ==
    [k |-> k, a |-> a, b |-> b, e |-> Literal(VBool(TRUE)), name |-> ""]
ExprStmt == Stmt("Expr", <<>>, <<>>)
ExprStmtOf(e) == [ExprStmt EXCEPT !.e = e]
VariableDecl(name, e) == [Stmt("Let", <<>>, <<>>) EXCEPT !.e = e, !.name = name]
ReturnStmt(e) == [Stmt("Return", <<>>, <<>>) EXCEPT !.e = e]
IfStmt(c, a, b) == [Stmt("If", a, b) EXCEPT !.e = c]
WhileStmt(c, a) == [Stmt("While", a, <<>>) EXCEPT !.e = c]

SeqsUpTo(S, n) == UNION {[1..m -> S] : m \in 1..n}

RECURSIVE Stmts(_)
Stmts(d) ==
    IF d = 0 THEN {ExprStmt}
    ELSE LET B == SeqsUpTo(Stmts(d - 1), MaxInner) IN
         {ExprStmt} \cup {Stmt("If", a, b) : a \in B, b \in B \cup {<<>>}}
                    \cup {Stmt("While", a, <<>>) : a \in B}

Bodies == SeqsUpTo(Stmts(MaxDepth), MaxSeq)
ShortBodies == SeqsUpTo(Stmts(MaxDepth), 1)

\* OperatorTag::arity
operator_arity(tag) ==
    CASE tag = "Noop" -> 0
      [] tag \in {"Call", "Negate", "Increment", "Decrement"} -> 1
      [] OTHER -> 2

ast_op_to_ir_op(tag) ==
    CASE tag = "Noop" -> "Nop"
      [] tag = "Negate" -> "Neg"
      [] tag = "Times" -> "Mul"
      [] tag = "Slash" -> "Div"
      [] tag = "Plus" -> "Add"
      [] tag = "Minus" -> "Sub"
      [] tag = "Equality" -> "CompareEq"
      [] tag = "Inequality" -> "CompareNe"
      [] tag = "LessThan" -> "CompareLt"
      [] tag = "GreaterThan" -> "CompareGt"
      [] tag = "Assign" -> "Replace"
      [] OTHER -> "Nop"

\* Opcode::arity
opcode_arity(op) ==
    CASE op \in {"LoadConst", "Push", "MakeHeapValue", "Neg", "Inc", "Dec",
                 "Jump", "Return"} -> 1
      [] op \in {"Replace", "JumpIf", "JumpElse", "Call", "NativeCall"} -> 2
      [] OTHER -> 0

get_stack_delta(op) ==
    CASE op \in {"LoadConst", "Push", "MakeHeapValue"} -> 1
      [] op \in {"Pop", "Add", "Sub", "Mul", "Div", "CompareEq", "CompareNe",
                 "CompareLt", "CompareGt", "JumpIf", "JumpElse"} -> -1
      [] op = "Return" -> -1000
      [] OTHER -> 0

\* A Locator is <<region, n>>; NoLocator is the None of Option<Locator>.
NoLocator == <<"None", -1>>

\* An IR step is [op, arg, a, b]: a and b are its locators and arg the
\* number of its last locator, which is the target of a jump.
Step(op, n) == [op |-> op, arg |-> n, a |-> NoLocator, b |-> NoLocator]
NonaryStep(op) == Step(op, 0)
UnaryStep(op, arg_0) == [Step(op, arg_0[2]) EXCEPT !.a = arg_0]
BinaryStep(op, arg_0, arg_1) == [Step(op, arg_1[2]) EXCEPT !.a = arg_0, !.b = arg_1]

Node(steps_arg, truthy_id_arg, falsy_id_arg) ==
    [steps |-> steps_arg, truthy_id |-> truthy_id_arg, falsy_id |-> falsy_id_arg]

\* The IR emitter at work on one function after enter_fun_scope: the
\* function's CFG, the links not yet applied, its constants and its locals.
\* `depths` is not in the code: it keeps, per emitted step, the relative
\* stack offset the emitter had when it emitted the step.
IrNew ==
    [nodes |-> <<>>, proto_links |-> <<>>, has_error |-> FALSE,
     proto_constants |-> <<>>, fun_locals |-> NoEntries,
     fun_locations |-> NoEntries,
     relative_stack_offset |-> -1, skip_emit |-> FALSE, depths |-> <<>>]

get_node_count(g) == Len(g.nodes)

add_node(g) == [g EXCEPT !.nodes = Append(@, Node(<<>>, -1, -1))]

emit_step(g, step) ==
    IF g.nodes = <<>> THEN g
    ELSE [g EXCEPT !.nodes[Len(g.nodes)].steps = Append(@, step),
                   !.depths = Append(@, g.relative_stack_offset)]

connect_nodes_by_id(nodes, from_id, to_id) ==
    IF from_id = -1 \/ to_id = -1 THEN nodes
    ELSE IF nodes[from_id + 1].truthy_id = -1
    THEN [nodes EXCEPT ![from_id + 1].truthy_id = to_id]
    ELSE [nodes EXCEPT ![from_id + 1].falsy_id = to_id]

record_proto_link(g, from_id, to_id) ==
    [g EXCEPT !.proto_links = Append(@, <<from_id, to_id>>)]

RECURSIVE ConnectAll(_, _, _)
ConnectAll(nodes, links, i) ==
    IF i > Len(links) THEN nodes
    ELSE ConnectAll(connect_nodes_by_id(nodes, links[i][1], links[i][2]), links, i + 1)

apply_proto_links(g) ==
    [g EXCEPT !.nodes = ConnectAll(@, g.proto_links, 1), !.proto_links = <<>>]

get_relative_offset(g) == g.relative_stack_offset
reset_relative_offset(g, arg) == [g EXCEPT !.relative_stack_offset = arg]
update_relative_offset(g, count) == [g EXCEPT !.relative_stack_offset = @ + count]

record_varname_locator(g, name, item) ==
    [g EXCEPT !.fun_locals = Insert(@, name, item)]

\* The programs lowered here name locals and functions, outside a class.
lookup_locator_of(g, name) ==
    IF HasKey(g.fun_locals, name) THEN g.fun_locals[name]
    ELSE IF HasKey(g.fun_locations, name)
    THEN <<"Functions", g.fun_locations[name].id>>
    ELSE NoLocator

lookup_fun_arity(g, fun_name) ==
    IF HasKey(g.fun_locations, fun_name) THEN g.fun_locations[fun_name].arity ELSE 0

Visited(g, ok) == [g |-> g, ok |-> ok]
Failed(g) == Visited([g EXCEPT !.has_error = TRUE], FALSE)

\* The emitter and the Option<Locator> an expression visitor returns.
Located(g, loc) == [g |-> g, loc |-> loc]

\* A literal is recorded as a constant and loaded; a name is pushed from
\* its locator; neither is emitted under skip_emit.
visit_primitive(g, e) ==
    IF e.k = "Literal"
    THEN LET r == record_proto_constant(g.proto_constants, e.val)
             g1 == [g EXCEPT !.proto_constants = r.pool]
         IN  Located(IF ~g.skip_emit
                     THEN update_relative_offset(
                              emit_step(g1, UnaryStep("LoadConst", r.locator)), 1)
                     ELSE g1,
                     r.locator)
    ELSE LET named_locator == lookup_locator_of(g, e.name) IN
         IF named_locator = NoLocator THEN Located(g, NoLocator)
         ELSE Located(IF ~g.skip_emit
                         /\ named_locator[1] \in {"Immediate", "TempStack", "ArgStore"}
                      THEN update_relative_offset(
                               emit_step(g, UnaryStep("Push", named_locator)), 1)
                      ELSE g,
                      named_locator)

RECURSIVE visit_expr(_, _), help_emit_assign(_, _), help_emit_bin_normal(_, _),
          VisitArgs(_, _, _)

\* The loop of visit_call over the arguments; `?` leaves at the first None.
VisitArgs(g, calling_args, i) ==
    IF i > Len(calling_args) THEN Located(g, <<"Immediate", 0>>)
    ELSE Only({IF r.loc = NoLocator THEN r ELSE VisitArgs(r.g, calling_args, i + 1)
               : r \in {visit_expr(g, calling_args[i])}})

\* visit_call that counts the result of the call but not the arguments it
\* consumed.
ir_visit_call_args_kept(g, e) ==
    LET callee_locator == lookup_locator_of(g, e.name)
        callee_arity == lookup_fun_arity(g, e.name)
        result_locator == <<"TempStack", get_relative_offset(g) + 1>>
    IN  IF callee_locator = NoLocator THEN Located(g, NoLocator)
        ELSE Only({
           IF r.loc = NoLocator THEN r
           ELSE IF callee_locator[1] = "Functions"
           THEN Located(update_relative_offset(
                            emit_step(r.g, BinaryStep("Call", callee_locator,
                                                      <<"Immediate", callee_arity>>)),
                            1),
                        result_locator)
           ELSE Located(r.g, NoLocator)
           : r \in {VisitArgs(g, e.lhs, 1)}})

\* IREmitter::visit_call on a named callee: the callee is looked up without
\* emitting, the arguments are lowered, the call is emitted.
ir_visit_call(g, e) ==
    LET callee_locator == lookup_locator_of(g, e.name)
        callee_arity == lookup_fun_arity(g, e.name)
        result_locator == <<"TempStack", get_relative_offset(g) + 1>>
    IN  IF callee_locator = NoLocator THEN Located(g, NoLocator)
        ELSE Only({
           IF r.loc = NoLocator THEN r
           ELSE IF callee_locator[1] = "Functions"
           THEN Located(update_relative_offset(
                            emit_step(r.g, BinaryStep("Call", callee_locator,
                                                      <<"Immediate", callee_arity>>)),
                            1 - callee_arity),
                        result_locator)
           ELSE Located(r.g, NoLocator)
           : r \in {VisitArgs(g, e.lhs, 1)}})

help_emit_assign(g, e) ==
    LET lhs_arity == opcode_arity(ast_op_to_ir_op(e.lhs[1].op))
        rhs_arity == opcode_arity(ast_op_to_ir_op(e.rhs[1].op))
        shifted == operator_arity(e.rhs[1].op) = 2
    IN  Only({
          IF r.loc = NoLocator THEN Located(r.g, NoLocator)
          ELSE Only({
             IF l.loc = NoLocator THEN Located(l.g, NoLocator)
             ELSE LET g2 == [l.g EXCEPT !.skip_emit = FALSE]
                      g3 == IF shifted THEN update_relative_offset(g2, -1) ELSE g2
                      rhs_locator == IF shifted THEN <<r.loc[1], r.loc[2] - 1>>
                                     ELSE r.loc
                  IN  Located(emit_step(g3, BinaryStep("Replace", l.loc, rhs_locator)),
                              l.loc)
             : l \in {visit_expr([r.g EXCEPT !.skip_emit = lhs_arity = 0], e.lhs[1])}})
          : r \in {visit_expr([g EXCEPT !.skip_emit = rhs_arity < 2], e.rhs[1])}})

help_emit_bin_normal(g, e) ==
    LET expr_opcode == ast_op_to_ir_op(e.op) IN
    Only({
      IF l.loc = NoLocator THEN Located(l.g, NoLocator)
      ELSE Only({
         IF r.loc = NoLocator THEN Located(r.g, NoLocator)
         ELSE Located(update_relative_offset(emit_step(r.g, NonaryStep(expr_opcode)),
                                             get_stack_delta(expr_opcode)),
                      <<"TempStack", l.at + 1>>)
         : r \in {visit_expr(l.g, e.rhs[1])}})
      : l \in {[at |-> get_relative_offset(x), g |-> y.g, loc |-> y.loc] :
                  x \in {g}, y \in {visit_expr([g EXCEPT !.skip_emit = FALSE], e.lhs[1])}}})

visit_binary(g, e) ==
    IF e.op = "Assign" THEN help_emit_assign(g, e) ELSE help_emit_bin_normal(g, e)

\* accept_visitor of an expression
visit_expr(g, e) ==
    CASE e.k = "Binary" -> visit_binary(g, e)
      [] e.k = "Call" -> ir_visit_call(g, e)
      [] OTHER -> visit_primitive(g, e)

visit_variable_decl(g, s) ==
    Only({IF v.loc = NoLocator THEN Failed(v.g)
          ELSE Visited(record_varname_locator(
                           v.g, s.name, <<"TempStack", get_relative_offset(v.g)>>),
                       TRUE)
          : v \in {visit_expr(g, s.e)}})

\* visit_return outside a constructor
visit_return(g, s) ==
    Only({LET result_delta == get_stack_delta(ast_op_to_ir_op(s.e.op))
              checked_locator ==
                  CASE v.loc[1] \in {"Immediate", "ArgStore"} -> v.loc
                    [] v.loc[1] = "TempStack" -> <<v.loc[1], v.loc[2] + result_delta>>
                    [] OTHER -> <<"Immediate", -1>>
              returned == IF checked_locator[2] = -1
                          THEN <<checked_locator[1], 0>> ELSE checked_locator
          IN  IF v.loc = NoLocator THEN Visited(v.g, FALSE)
              ELSE Visited(reset_relative_offset(
                               emit_step(v.g, UnaryStep("Return", returned)), -1), TRUE)
          : v \in {visit_expr(g, s.e)}})

visit_expr_stmt(g, s) ==
    Only({IF v.loc # NoLocator /\ v.loc[1] # "TempStack"
          THEN Visited(update_relative_offset(emit_step(v.g, NonaryStep("Pop")), -1),
                       TRUE)
          ELSE Visited(v.g, TRUE)
          : v \in {visit_expr(g, s.e)}})

RECURSIVE visit_stmt(_, _), visit_block(_, _), VisitItems(_, _, _),
          visit_if(_, _), visit_while(_, _)

VisitItems(g, items, i) ==
    IF i > Len(items) THEN Visited(g, TRUE)
    ELSE Only({IF ~r.ok THEN Failed(r.g) ELSE VisitItems(r.g, items, i + 1)
               : r \in {visit_stmt(g, items[i])}})

visit_block(g, items) ==
    IF items = <<>> THEN Visited(g, FALSE)
    ELSE VisitItems(add_node(g), items, 1)

\* The steps that visit_if emits after the true body, and its first link.
AfterTruthyBody(g, pre_if_block_id) ==
    record_proto_link(
        emit_step(emit_step(emit_step(g, UnaryStep("Jump", <<"BlockId", -1>>)),
                            NonaryStep("Nop")), NonaryStep("GenPatch")),
        pre_if_block_id, pre_if_block_id + 1)

visit_if(g, s) ==
    Only({
      IF c.loc = NoLocator THEN Failed(c.g)
      ELSE Only({
        IF ~t.ok THEN Failed(t.g)
        ELSE Only({
          LET pre_if_block_id == get_node_count(c.g) - 1
              block_1_id == pre_if_block_id + 1
          IN  IF ~f.ok /\ ~f.g.has_error
              THEN LET if_fallthrough_id == block_1_id + 1
                       g3 == emit_step(add_node(f.g), NonaryStep("Nop"))
                       g4 == record_proto_link(
                                 record_proto_link(g3, pre_if_block_id,
                                                   if_fallthrough_id),
                                 block_1_id, if_fallthrough_id)
                   IN  Visited(apply_proto_links(g4), TRUE)
              ELSE IF f.g.has_error THEN Failed(f.g)
              ELSE LET g3 == emit_step(emit_step(f.g, NonaryStep("Nop")),
                                       NonaryStep("GenPatch"))
                       block_2_id == get_node_count(g3) - 1
                       g4 == record_proto_link(g3, pre_if_block_id, block_2_id)
                       post_if_block_id == block_2_id + 1
                       g5 == emit_step(emit_step(add_node(g4), NonaryStep("Nop")),
                                       NonaryStep("GenPatch"))
                       g6 == record_proto_link(
                                 record_proto_link(g5, block_1_id, post_if_block_id),
                                 block_2_id, post_if_block_id)
                   IN  Visited(apply_proto_links(g6), TRUE)
          : f \in {visit_block(AfterTruthyBody(t.g, get_node_count(c.g) - 1), s.b)}})
        : t \in {visit_block(
                    emit_step(c.g, BinaryStep("JumpElse", c.loc, <<"BlockId", -1>>)),
                    s.a)}})
      : c \in {visit_expr(g, s.e)}})

visit_while(g, s) ==
    Only({
      IF c.loc = NoLocator THEN Failed(c.g)
      ELSE Only({
        IF ~b.ok THEN Failed(b.g)
        ELSE LET while_block_id == get_node_count(c.g)
                 g3 == record_proto_link(
                           emit_step(emit_step(b.g, UnaryStep("Jump", <<"BlockId", -1>>)),
                                     NonaryStep("GenPatchBack")),
                           while_block_id, while_block_id)
                 g4 == add_node(g3)
                 post_while_block_id == get_node_count(g4) - 1
                 g5 == emit_step(emit_step(
                           record_proto_link(g4, while_block_id, post_while_block_id),
                           NonaryStep("Nop")), NonaryStep("GenPatch"))
             IN  Visited(apply_proto_links(g5), TRUE)
        : b \in {visit_block(
                    record_proto_link(
                        emit_step(c.g, BinaryStep("JumpElse", c.loc, <<"BlockId", -1>>)),
                        get_node_count(c.g) - 1, get_node_count(c.g)),
                    s.a)}})
      : c \in {visit_expr(emit_step(emit_step(g, NonaryStep("Nop")),
                                    NonaryStep("GenBeginLoop")), s.e)}})

visit_stmt(g, s) ==
    CASE s.k = "Expr" -> visit_expr_stmt(g, s)
      [] s.k = "Let" -> visit_variable_decl(g, s)
      [] s.k = "Return" -> visit_return(g, s)
      [] s.k = "If" -> visit_if(g, s)
      [] s.k = "While" -> visit_while(g, s)

\* visit_function_decl in the second pass: a new scope, then the body.
\* The emitter it leaves, and the CFG in it.
visit_function_body(body) == visit_block(IrNew, body).g
visit_function_decl(body) == visit_function_body(body).nodes

\* -------------------------------------------------------- bytecode emitter
\* codegen/bytecode_emitter.rs.  A bytecode instruction is [op, arg]; for a
\* jump, arg is the target.

PatchEntry(instruction_pos, patching_value, is_backward) ==
    [instruction_pos |-> instruction_pos, patching_value |-> patching_value,
     is_backward |-> is_backward]

JumpOps == {"Jump", "JumpIf", "JumpElse"}

is_valid_jump(ins) == ins.op \in JumpOps /\ ins.arg # -1

\* The part of the emitter that the emission of a block works on; `panic`
\* is set when an `unwrap` of `None` aborts the process.
Em == [pending_patches |-> pending_patches, temp_instructions |-> temp_instructions,
       panic |-> FALSE]

get_last_instruction_pos(m) == Len(m.temp_instructions) - 1

start_backpatch(m, patch) == [m EXCEPT !.pending_patches = Append(@, patch)]

update_patch(m) ==
    [m EXCEPT !.pending_patches[1].patching_value = get_last_instruction_pos(m)]

update_backpatch(m) ==
    [m EXCEPT !.pending_patches[1].instruction_pos = get_last_instruction_pos(m)]

apply_patch(m) ==
    IF m.pending_patches = <<>> THEN m
    ELSE LET m1 == IF Head(m.pending_patches).is_backward
                   THEN update_backpatch(m) ELSE update_patch(m)
             next_patch == Head(m1.pending_patches)
             m2 == [m1 EXCEPT !.pending_patches = Tail(@)]
             target_ref == m2.temp_instructions[next_patch.instruction_pos + 1]
         IN  IF next_patch.instruction_pos = -1 \/ next_patch.patching_value = -1
             THEN m1
             ELSE IF next_patch.instruction_pos >= Len(m2.temp_instructions)
             THEN [m2 EXCEPT !.panic = TRUE]
             ELSE IF is_valid_jump(target_ref) THEN m2
             ELSE IF target_ref.op \in JumpOps
             THEN [m2 EXCEPT !.temp_instructions[next_patch.instruction_pos + 1].arg =
                                 next_patch.patching_value]
             ELSE m2

convert_ir_arg_tag(region) ==
    CASE region = "Immediate" -> "ConstantId"
      [] region = "TempStack" -> "StackOffset"
      [] region = "ObjectHeap" -> "HeapId"
      [] region = "Field" -> "InstanceFieldId"
      [] region = "Functions" -> "ProcedureId"
      [] region = "Natives" -> "NativeId"
      [] region = "BlockId" -> "CodeOffset"
      [] OTHER -> "Dud"

\* The bytecode instruction of a step: its arguments are the converted
\* locators.
PushInstruction(m, step) ==
    [m EXCEPT !.temp_instructions =
        Append(@, [step EXCEPT !.a = <<convert_ir_arg_tag(@[1]), @[2]>>,
                               !.b = <<convert_ir_arg_tag(@[1]), @[2]>>])]

emit_nonary_step_code(m, step) ==
    CASE step.op = "GenBeginLoop" ->
            start_backpatch(m, PatchEntry(-1, get_last_instruction_pos(m), TRUE))
      [] step.op \in {"GenPatch", "GenPatchBack"} -> apply_patch(m)
      [] OTHER -> PushInstruction(m, step)

emit_unary_step_code(m, step) ==
    LET m1 == PushInstruction(m, step) IN
    IF step.op = "Jump"
    THEN start_backpatch(m1, PatchEntry(get_last_instruction_pos(m1), -1, FALSE))
    ELSE m1

emit_binary_step_code(m, step) ==
    LET m1 == PushInstruction(m, step) IN
    IF step.op \in {"JumpIf", "JumpElse"}
    THEN start_backpatch(m1, PatchEntry(get_last_instruction_pos(m1), -1, FALSE))
    ELSE m1

EmitStep(m, step) ==
    CASE opcode_arity(step.op) = 0 -> emit_nonary_step_code(m, step)
      [] opcode_arity(step.op) = 1 -> emit_unary_step_code(m, step)
      [] opcode_arity(step.op) = 2 -> emit_binary_step_code(m, step)

RECURSIVE emit_ir_block_code(_, _, _)
emit_ir_block_code(m, ir_block, i) ==
    IF i > Len(ir_block.steps) \/ m.panic THEN m
    ELSE emit_ir_block_code(EmitStep(m, ir_block.steps[i]), ir_block, i + 1)

temp_cfg == cfg_list[cfg_id + 1]

\* generate_bytecode is handed the CFGs of a program's procedures.
EngineOff ==
    /\ constants = <<>> /\ heap = ObjectHeap_new(0)
    /\ frames = <<>> /\ calls = <<>> /\ last = NoCall
    /\ stack = Empties(StackLimit)
    /\ rpid = -1 /\ rip = 0 /\ rbp = 0 /\ rsp = -1
    /\ status = "Ok" /\ phase = "off" /\ nat = "Ok" /\ steps = 0

EmitInit ==
    /\ EngineOff /\ FrontOff
    /\ cfg_list \in {<<visit_function_decl(p)>> : p \in Bodies}
            \cup {<<visit_function_decl(p), visit_function_decl(q)>> :
                     p \in ShortBodies, q \in ShortBodies}
    /\ cfg_id = 0
    /\ pending_node_ids = <<>> /\ pending_patches = <<>>
    /\ temp_instructions = <<>> /\ done_ids = {} /\ chunks = <<>>
    /\ epc = "next"

\* convert_ir_cfg_to_chunk up to its loop.
BeginConvert ==
    /\ epc = "next" /\ cfg_id < Len(cfg_list)
    /\ done_ids' = {}
    /\ pending_node_ids' = Append(pending_node_ids, IF temp_cfg # <<>> THEN 0 ELSE -1)
    /\ epc' = "loop"
    /\ UNCHANGED <<cfg_list, cfg_id, pending_patches, temp_instructions, chunks,
                   engine_vars, front_vars>>

next_node_id == pending_node_ids[Len(pending_node_ids)]
PopBack(q) == SubSeq(q, 1, Len(q) - 1)

\* An iteration of the loop that `continue`s.
SkipNode ==
    /\ epc = "loop" /\ pending_node_ids # <<>>
    /\ next_node_id = -1 \/ next_node_id \in done_ids
    /\ pending_node_ids' = PopBack(pending_node_ids)
    /\ UNCHANGED <<cfg_list, cfg_id, pending_patches, temp_instructions, done_ids,
                   chunks, epc, engine_vars, front_vars>>

\* EmitNode queueing only the truthy successor of the emitted block.
EmitNode_truthy_only ==
    /\ epc = "loop" /\ pending_node_ids # <<>>
    /\ next_node_id # -1 /\ next_node_id \notin done_ids
    /\ LET ir_block == temp_cfg[next_node_id + 1]
           m == emit_ir_block_code(Em, ir_block, 1)
           rest == PopBack(pending_node_ids)
       IN  /\ pending_patches' = m.pending_patches
           /\ temp_instructions' = m.temp_instructions
           /\ done_ids' = done_ids \cup {next_node_id}
           /\ pending_node_ids' = rest \o <<ir_block.truthy_id>>
           /\ epc' = IF m.panic THEN "aborted" ELSE epc
    /\ UNCHANGED <<cfg_list, cfg_id, chunks, engine_vars, front_vars>>

\* An iteration of the loop that emits a block.
EmitNode ==
    /\ epc = "loop" /\ pending_node_ids # <<>>
    /\ next_node_id # -1 /\ next_node_id \notin done_ids
    /\ LET ir_block == temp_cfg[next_node_id + 1]
           m == emit_ir_block_code(Em, ir_block, 1)
           block_truthy_id == ir_block.truthy_id
           block_falsy_id == ir_block.falsy_id
           rest == PopBack(pending_node_ids)
       IN  /\ pending_patches' = m.pending_patches
           /\ temp_instructions' = m.temp_instructions
           /\ done_ids' = done_ids \cup {next_node_id}
           /\ pending_node_ids' =
                 IF block_truthy_id # -1 /\ block_falsy_id = -1
                 THEN <<block_truthy_id>> \o rest
                 ELSE rest \o <<block_falsy_id, block_truthy_id>>
           /\ epc' = IF m.panic THEN "aborted" ELSE epc
    /\ UNCHANGED <<cfg_list, cfg_id, chunks, engine_vars, front_vars>>

\* convert_ir_cfg_to_chunk after its loop, and generate_bytecode's push.
EndConvert ==
    /\ epc = "loop" /\ pending_node_ids = <<>>
    /\ LET m == apply_patch(Em) IN
          /\ pending_patches' = m.pending_patches
          /\ chunks' = Append(chunks, m.temp_instructions)
          /\ epc' = IF m.panic THEN "aborted" ELSE "next"
    /\ temp_instructions' = <<>>
    /\ cfg_id' = cfg_id + 1
    /\ UNCHANGED <<cfg_list, pending_node_ids, done_ids, engine_vars, front_vars>>

\* generate_bytecode returns the program.
EndGenerate ==
    /\ epc = "next" /\ cfg_id = Len(cfg_list)
    /\ epc' = "done"
    /\ UNCHANGED <<cfg_list, cfg_id, pending_node_ids, pending_patches,
                   temp_instructions, done_ids, chunks, engine_vars, front_vars>>

EmitNext == BeginConvert \/ SkipNode \/ EmitNode \/ EndConvert \/ EndGenerate

EmitSpec == EmitInit /\ [][EmitNext]_vars

\* ------------------------------------------------------ emitter properties

Unpatched(code) == {i \in 1..Len(code) : code[i].op \in JumpOps /\ code[i].arg = -1}

\* C1: after bytecode emission no Jump, JumpIf or JumpElse of an emitted
\* chunk has target -1.
C1_PatchComplete ==
    epc = "done" => \A k \in 1..Len(chunks) : Unpatched(chunks[k]) = {}

\* ------------------------------------------------------- engine properties

Halted == phase = "running" /\ phase' = "returned"

\* C2: Engine.run executes an instruction only while the frame deque is
\* non-empty and the status is Ok, and goes on to halt as soon as that fails;
\* halting with status Ok it returns Ok if stack[0] is Int(0) and NotOk
\* otherwise, halting with another status it returns that status unchanged.
C2_RunUntilDone ==
    [][ /\ (steps' > steps => frames # <<>> /\ status = "Ok")
        /\ (phase = "running" /\ (frames = <<>> \/ status # "Ok") => phase' = "returned")
        /\ (Halted =>
              /\ frames = <<>> \/ status # "Ok"
              /\ status' = IF status # "Ok" THEN status
                           ELSE IF stack[1] = VInt(0) THEN "Ok" ELSE "NotOk")
      ]_vars

\* run() has returned Ok after the entry procedure returned with Int(0) in
\* stack[0], and it has returned NotOk after it returned with something else.
C2_Witness ==
    /\ phase = "returned" /\ frames = <<>> /\ steps > 0
    /\ status = "Ok" /\ stack[1] = VInt(0)

\* C3: when a Return pops a frame made by Call, control is back in the
\* caller with rsp one above its value before the arguments were pushed, the
\* returned value at stack[rsp], rpid and rbp as they were when the Call was
\* fetched and rip at the Call's position + 1, whatever the nesting depth.
C3_CallReturn ==
    [][ \A src \in Sources :
          (ReturnStep(src) /\ Len(frames') < Len(frames)
                /\ calls[Len(calls)].kind = "Call") =>
             LET c == calls[Len(calls)] IN
             /\ rsp' = c.rsp + 1
             /\ stack'[rsp' + 1] = fetch_value_by(Eng, src)
             /\ rpid' = c.rpid
             /\ rbp' = c.rbp
             /\ rip' = c.rip + 1
      ]_vars

\* A Call nested in a called procedure has just been completed by a Return.
C3_Witness ==
    /\ last.kind = "Call" /\ last.by = "Return"
    /\ Len(frames) >= 2 /\ status = "Ok" /\ phase = "running"
    /\ rsp = last.rsp + 1

LiveRefs(id) == {i \in 0..rsp : stack[i + 1] = VHeapRef(id)}

\* C4: in every reachable engine state the refcount of each heap cell is the
\* number of HeapRef values pointing to it in the live stack slots 0..rsp.
C4_RefcountIsLiveRefs ==
    phase # "aborted" =>
        \A id \in 0..(Len(heap.entries) - 1) :
            get_cell(heap, id).ref_count = Cardinality(LiveRefs(id))

\* C5: rsp stays within -1 .. stack_limit - 1, and a push attempted on a full
\* stack (here by LoadConst) sets AccessError instead of touching a slot at
\* stack_limit or beyond (which would abort the process).
C5_StackBounded ==
    [][ /\ -1 <= rsp' /\ rsp' <= stack_limit - 1
        /\ \A c \in ConstIds :
              (rsp = stack_limit - 1 /\ LoadConstStep(c)) =>
                  status' = "AccessError" /\ phase' # "aborted"
      ]_vars

IsZero(x) == x.t \in {"Int", "Float"} /\ x.v = 0
SameNumeric(a, b) == a.t = b.t /\ a.t \in {"Int", "Float"}

\* C6: Div with an Int or Float zero as rhs sets BadMath and pushes nothing;
\* Div on two operands of one numeric type with a non-zero rhs pushes the
\* quotient, leaves the status Ok and advances rip by 1.
C6_Div ==
    [][ (Div /\ rsp >= 1) =>
          LET lhs == stack[rsp]
              rhs == stack[rsp + 1]
          IN  /\ IsZero(rhs) => status' = "BadMath" /\ rsp' = rsp - 2 /\ rip' = rip
              /\ (SameNumeric(lhs, rhs) /\ ~IsZero(rhs)) =>
                    /\ phase' = "running" /\ status' = "Ok"
                    /\ rsp' = rsp - 1 /\ rip' = rip + 1
                    /\ stack'[rsp' + 1] = div(lhs, rhs).val
      ]_vars

\* C7: once the status differs from Ok it never goes back to Ok and no
\* further instruction is executed.
C7_ErrorsAreFatal ==
    [][ status # "Ok" => status' # "Ok" /\ steps' = steps ]_vars

C9_Pop ==
    [][ PopStep =>
          /\ rsp = -1 => status' = "AccessError" /\ rsp' = rsp /\ rip' = rip
          /\ rsp >= 0 => status' = "Ok" /\ rsp' = rsp - 1 /\ rip' = rip + 1
      ]_vars

Binary ==
    \/ Add \/ Sub \/ Mul \/ Div
    \/ CompareEq \/ CompareNe \/ CompareLt \/ CompareGt

Mismatched(a, b) == a.t # b.t \/ a.t = "Empty" \/ b.t = "Empty"

\* C10: an arithmetic or comparison instruction whose two operands differ in
\* type tag, or one of which is Empty, sets ValueError and pushes no result.
C10_TypeMismatch ==
    [][ (Binary /\ rsp >= 1 /\ Mismatched(stack[rsp], stack[rsp + 1])) =>
          status' = "ValueError" /\ rsp' = rsp - 2
      ]_vars

\* ------------------------------------------------- the heap as an object
\* vm/heap.rs ObjectHeap driven through its public methods: any sequence of
\* allocations, reference-count changes and collections (steps counts them).
\* phase is "heap" while the object is usable and "aborted" after a panic.

MaxRc == 1
MaxCellId == 3
MaxHeapOps == 5
HeapBudgets == {0, TOTAL_STRING_OVERHEAD, 2 * TOTAL_STRING_OVERHEAD}
HeapTags == {"Varchar", "None"}

IsSorted(list) == \A i \in 1..(Len(list) - 1) : list[i] <= list[i + 1]

HeapInit ==
    /\ \E b \in HeapBudgets : heap = ObjectHeap_new(b)
    /\ phase = "heap"
    /\ constants = <<>> /\ frames = <<>> /\ calls = <<>> /\ last = NoCall
    /\ stack = Empties(StackLimit)
    /\ rpid = -1 /\ rip = 0 /\ rbp = 0 /\ rsp = -1
    /\ status = "Ok" /\ nat = "Ok" /\ steps = 0
    /\ EmitterOff /\ FrontOff

HeapFrame == <<frames, stack, rpid, rip, rbp, rsp, status, nat, constants,
               calls, last, emitter_vars, front_vars>>

\* One more method call on the heap.
HeapOp == steps < MaxHeapOps /\ steps' = steps + 1

HeapCreate ==
    /\ phase = "heap"
    /\ HeapOp
    /\ \E tag \in HeapTags :
         LET r == try_create_cell(heap, tag) IN
         /\ heap' = r.h
         /\ phase' = IF r.panic THEN "aborted" ELSE "heap"
    /\ UNCHANGED HeapFrame

HeapIncRc ==
    /\ phase = "heap"
    /\ HeapOp
    /\ \E id \in 0..MaxCellId :
         /\ HasCell(heap, id) /\ get_cell(heap, id).ref_count < MaxRc
         /\ heap' = [heap EXCEPT !.entries[id + 1].ref_count = @ + 1]
    /\ UNCHANGED <<phase, HeapFrame>>

HeapDecRc ==
    /\ phase = "heap"
    /\ HeapOp
    /\ \E id \in 0..MaxCellId :
         /\ HasCell(heap, id) /\ get_cell(heap, id).ref_count > 0
         /\ heap' = [heap EXCEPT !.entries[id + 1].ref_count = @ - 1]
    /\ UNCHANGED <<phase, HeapFrame>>

HeapCollect ==
    /\ phase = "heap"
    /\ HeapOp
    /\ \E id \in 0..MaxCellId, found \in BOOLEAN :
         /\ IsSorted(heap.free_list) => found = InList(heap.free_list, id)
         /\ LET r == try_collect_cell_with(heap, id, found) IN
            /\ heap' = r.h
            /\ phase' = IF r.panic THEN "aborted" ELSE "heap"
    /\ UNCHANGED HeapFrame

HeapForceCollect ==
    /\ phase = "heap"
    /\ HeapOp
    /\ heap' = force_collect_all(heap)
    /\ UNCHANGED <<phase, HeapFrame>>

HeapNext ==
    \/ HeapCreate \/ HeapIncRc \/ HeapDecRc \/ HeapCollect \/ HeapForceCollect

HeapSpec == HeapInit /\ [][HeapNext]_vars

\* C11: the heap never holds more cells than the slot capacity derived from
\* the byte budget, and an allocation requested with an empty free list once
\* that capacity is reached creates no cell.
C11_HeapBounded ==
    [][ /\ Len(heap'.entries) <= heap'.slot_limit
        /\ (HeapCreate /\ heap.free_list = <<>>
                       /\ Len(heap.entries) >= heap.slot_limit)
              => heap'.entries = heap.entries
      ]_vars

C13_Replace ==
    [][ \A k \in Offsets, src \in Sources :
          (/\ ReplaceStep(<<"StackOffset", k>>, src)
           /\ fetch_value_by(Eng, src) \notin {NoneV, PanicV}
           /\ InStack(rbp + k)) =>
              /\ stack' = [stack EXCEPT ![rbp + k + 1] = fetch_value_by(Eng, src)]
              /\ heap' = heap /\ frames' = frames
              /\ rsp' = rsp /\ rbp' = rbp /\ rip' = rip + 1
      ]_vars

\* C14: MakeHeapObject(n), with room on the stack, allocates an Instance of
\* n Empty fields, pushes its handle and records it as the current frame's
\* instance, so that a read of field i in that frame reads field i of that
\* instance.
C14_MakeHeapObject ==
    [][ \A n \in FieldCounts :
          (MakeHeapObjectStep(n) /\ rsp < stack_limit - 1) =>
              /\ status' = "Ok" /\ phase' = "running"
              /\ rsp' = rsp + 1 /\ rip' = rip + 1
              /\ stack'[rsp' + 1].t = "HeapRef"
              /\ HasCell(heap', stack'[rsp' + 1].v)
              /\ get_cell(heap', stack'[rsp' + 1].v).value = HvInstance(Empties(n))
              /\ instance_heap_id(Eng') = stack'[rsp' + 1].v
              /\ \A i \in 0..(n - 1) : fetch_inst_field(Eng', i) = VEmpty
      ]_vars

\* The current frame was entered by Call and has executed nothing yet.
AtCalleeEntry ==
    /\ calls # <<>> /\ calls[Len(calls)].kind = "Call"
    /\ rip = 0 /\ rsp = rbp - 1

\* C15: a constructor call produces the instance handle.  The constructor's
\* first instruction, MakeHeapObject, leaves the handle of a new Instance in
\* the frame's first slot, and a Leave in a called frame pops the frame,
\* restores the caller's rpid, rip and rbp and leaves that first slot as the
\* caller's result slot.
C15_ConstructorLeave ==
    [][ /\ \A n \in FieldCounts :
             (AtCalleeEntry /\ MakeHeapObjectStep(n) /\ rsp < stack_limit - 1) =>
                 /\ status' = "Ok"
                 /\ stack'[rbp + 1].t = "HeapRef"
                 /\ HasCell(heap', stack'[rbp + 1].v)
                 /\ get_cell(heap', stack'[rbp + 1].v).value.k = "Instance"
        /\ (Leave /\ calls[Len(calls)].kind = "Call") =>
              LET c == calls[Len(calls)] IN
              /\ Len(frames') = Len(frames) - 1
              /\ rpid' = c.rpid /\ rip' = c.rip + 1 /\ rbp' = c.rbp
              /\ rsp' = rbp /\ stack' = stack
      ]_vars

\* ------------------------------------------------------ the declarations
\* frontend/ast.rs: the top-level declarations of a program and the members
\* of a class.  Every record has the same fields; those a kind does not use
\* are empty.  `mod` is the access modifier of a class member.

Decl(kind, name, params, body, members, mod) ==
    [kind |-> kind, name |-> name, params |-> params, body |-> body,
     members |-> members, mod |-> mod]

FunctionDecl(name, params, body) == Decl("Fun", name, params, body, <<>>, "Exposed")
ForeignStub(name, params) == Decl("Stub", name, params, <<>>, <<>>, "Exposed")
ClassDecl(name, members) == Decl("Class", name, <<>>, <<>>, members, "Exposed")
FieldDecl(name, mod) == Decl("Field", name, <<>>, <<>>, <<>>, mod)
ConstructorDecl(params, body, mod) == Decl("Ctor", "", params, body, <<>>, mod)
MethodDecl(name, params, body, mod) == Decl("Method", name, params, body, <<>>, mod)


\* ---------------------------------------- procedure ids in the IR emitter
\* codegen/ir_emitter.rs emit_all_ir: the prepass over the declarations
\* registers procedures, the second pass opens one CFG per procedure body;
\* codegen/bytecode_emitter.rs generate_bytecode turns the i-th CFG into the
\* i-th procedure.  A CFG is represented by the declaration it was opened for;
\* the bodies are taken to lower without error.

MaxDecls == 3
MaxMembers == 2

IrMembers ==
    {FieldDecl("x", "Exposed"), ConstructorDecl(<<>>, <<>>, "Exposed"),
     MethodDecl("m", <<>>, <<>>, "Exposed")}

IrDecls ==
    {FunctionDecl(n, <<>>, <<>>) : n \in {"main", "f"}}
        \cup {ForeignStub("g", <<>>)}
        \cup {ClassDecl("A", ms) : ms \in {<<>>} \cup SeqsUpTo(IrMembers, MaxMembers)}

\* The declaration a CFG was opened for.
Owner(kind, name) == [kind |-> kind, name |-> name]

IREmitter_new ==
    [stage |-> "prepass", pos |-> 0,
     class_layouts |-> NoEntries, fun_locations |-> NoEntries,
     result |-> <<>>, main_id |-> -1, ctx_class_name |-> "",
     has_prepass |-> TRUE, has_error |-> FALSE,
     procedures |-> <<>>, entry_id |-> -1]

\* Returns the emitter and the Option<i32>, -1 for None.
record_fun_by_name(em, name, arity) ==
    IF HasKey(em.fun_locations, name) THEN [em |-> em, id |-> -1]
    ELSE LET next_fun_id == Cardinality(DOMAIN em.fun_locations) IN
         [em |-> [em EXCEPT
                    !.main_id = IF @ = -1 /\ name = "main" THEN next_fun_id ELSE @,
                    !.fun_locations = Insert(@, name, [id |-> next_fun_id,
                                                      arity |-> arity])],
          id |-> next_fun_id]

enter_fun_scope(em, owner) == [em EXCEPT !.result = Append(@, owner)]

ClassLayout_default == [members |-> NoEntries, method_table |-> NoEntries]

\* ClassLayout::add_member through record_class_field.
record_class_field(em, class_name, field_name) ==
    IF ~HasKey(em.class_layouts, class_name) THEN [em |-> em, ok |-> FALSE]
    ELSE LET layout == em.class_layouts[class_name]
             next_member_id == Cardinality(DOMAIN layout.members)
         IN  [em |-> [em EXCEPT !.class_layouts[class_name].members =
                                    Insert(@, field_name, next_member_id)],
              ok |-> ~HasKey(layout.members, field_name)]

\* The visit of one class member in the second pass.
ir_visit_member(em, m) ==
    CASE m.kind = "Field" -> record_class_field(em, em.ctx_class_name, m.name)
      [] m.kind = "Ctor" ->
            IF ~HasKey(em.class_layouts, em.ctx_class_name)
            THEN [em |-> [enter_fun_scope(em, Owner("Ctor", em.ctx_class_name))
                            EXCEPT !.has_error = TRUE], ok |-> FALSE]
            ELSE [em |-> enter_fun_scope(em, Owner("Ctor", em.ctx_class_name)),
                  ok |-> ~em.has_error]
      [] OTHER ->
            [em |-> enter_fun_scope(em, Owner("Method", em.ctx_class_name)),
             ok |-> ~em.has_error]

\* The member loop of visit_class_decl: it stops at the first failed member.
RECURSIVE ir_visit_members(_, _, _)
ir_visit_members(em, members, i) ==
    IF i > Len(members) THEN em
    ELSE LET r == ir_visit_member(em, members[i]) IN
         IF r.ok THEN ir_visit_members(r.em, members, i + 1) ELSE r.em

\* accept_visitor of a top-level declaration: the emitter and the bool.
ir_visit_decl(em, d) ==
    CASE d.kind = "Stub" -> [em |-> em, ok |-> TRUE]
      [] d.kind = "Fun" ->
            IF em.has_prepass
            THEN LET r == record_fun_by_name(em, d.name, Len(d.params)) IN
                 [em |-> r.em, ok |-> r.id # -1]
            ELSE [em |-> enter_fun_scope(em, Owner("Fun", d.name)),
                  ok |-> ~em.has_error]
      [] OTHER ->
            IF em.has_prepass
            THEN [em |-> [em EXCEPT !.class_layouts =
                                       Insert(@, d.name, ClassLayout_default)],
                  ok |-> ~HasKey(em.class_layouts, d.name)]
            ELSE LET e1 == ir_visit_members([em EXCEPT !.ctx_class_name = d.name],
                                            d.members, 1)
                 IN  [em |-> [e1 EXCEPT !.ctx_class_name = ""], ok |-> ~e1.has_error]

IrFrame == <<full_ast, analyzer, sema_pc, loader, engine_vars, emitter_vars>>

IrInit ==
    /\ EngineOff /\ EmitterOff
    /\ analyzer = <<>> /\ sema_pc = [stage |-> "off"] /\ loader = [stage |-> "off"]
    /\ full_ast \in SeqsUpTo(IrDecls, MaxDecls)
    /\ ir_emitter = IREmitter_new

\* One iteration of either loop of emit_all_ir.
IrVisit ==
    /\ ir_emitter.stage \in {"prepass", "emit"}
    /\ ir_emitter.pos < Len(full_ast)
    /\ LET r == ir_visit_decl(ir_emitter, full_ast[ir_emitter.pos + 1]) IN
       ir_emitter' = IF r.ok THEN [r.em EXCEPT !.pos = @ + 1]
                     ELSE [r.em EXCEPT !.stage = "failed"]
    /\ UNCHANGED IrFrame

\* set_prepass_flag(false) between the loops.
IrEndPrepass ==
    /\ ir_emitter.stage = "prepass" /\ ir_emitter.pos = Len(full_ast)
    /\ ir_emitter' = [ir_emitter EXCEPT !.stage = "emit", !.pos = 0,
                                        !.has_prepass = FALSE]
    /\ UNCHANGED IrFrame

\* emit_all_ir returns its result and generate_bytecode makes the i-th CFG
\* the procedure of id i; the program's entry id is main_id.
IrGenerate ==
    /\ ir_emitter.stage = "emit" /\ ir_emitter.pos = Len(full_ast)
    /\ ir_emitter' = [ir_emitter EXCEPT
                        !.stage = "done",
                        !.procedures = [i \in 1..Len(ir_emitter.result) |->
                                          [id |-> i - 1, chunk |-> ir_emitter.result[i]]],
                        !.entry_id = ir_emitter.main_id]
    /\ UNCHANGED IrFrame

IrNext == IrVisit \/ IrEndPrepass \/ IrGenerate

IrSpec == IrInit /\ [][IrNext]_vars

\* The id under which the procedure of a CFG was registered, -1 if none.
RegisteredId(owner) ==
    IF HasKey(ir_emitter.fun_locations, owner.name)
    THEN ir_emitter.fun_locations[owner.name].id ELSE -1

\* C16: in the emitted program the procedure at index i is the one that was
\* registered with id i, whatever the order and mix of function, constructor
\* and method declarations, and the entry id is the id registered for main.
C16_StableIds ==
    ir_emitter.stage = "done" =>
        /\ \A i \in 1..Len(ir_emitter.procedures) :
              RegisteredId(ir_emitter.procedures[i].chunk) = i - 1
        /\ HasKey(ir_emitter.fun_locations, "main") =>
              ir_emitter.entry_id = ir_emitter.fun_locations["main"].id

\* ------------------------------------------------- the block traversal
\* convert_ir_cfg_to_chunk on CFGs of any shape: every block has any block of
\* the CFG, or none, as its truthy and its falsy successor, and holds one
\* LoadConst whose operand is the block's id, so that the emitted code shows
\* which blocks were emitted and how often.

MaxNodes == 3

Shapes(n) ==
    [1..n -> {Node(<<>>, t, f) : t \in -1..(n - 1), f \in -1..(n - 1)}]

Marked(shape) ==
    [i \in 1..Len(shape) |-> [shape[i] EXCEPT !.steps = <<Step("LoadConst", i - 1)>>]]

AnyCFGs == {<<>>} \cup {Marked(g) : g \in UNION {Shapes(n) : n \in 1..MaxNodes}}

CfgInit ==
    /\ EngineOff /\ FrontOff
    /\ cfg_list \in {<<g>> : g \in AnyCFGs}
    /\ cfg_id = 0
    /\ pending_node_ids = <<>> /\ pending_patches = <<>>
    /\ temp_instructions = <<>> /\ done_ids = {} /\ chunks = <<>>
    /\ epc = "next"

CfgSpec == CfgInit /\ [][EmitNext]_vars /\ WF_vars(EmitNext)

Successors(cfg, ids) ==
    {s \in 0..(Len(cfg) - 1) :
        \E i \in ids : s \in {cfg[i + 1].truthy_id, cfg[i + 1].falsy_id}}

RECURSIVE Closure(_, _)
Closure(cfg, ids) ==
    LET more == ids \cup Successors(cfg, ids) IN
    IF more = ids THEN ids ELSE Closure(cfg, more)

\* The blocks reachable from block 0 via successor edges.
Reachable(cfg) == IF cfg = <<>> THEN {} ELSE Closure(cfg, {0})

\* How many times the code of block `id` was emitted.
Emitted(code, id) == Cardinality({k \in 1..Len(code) : code[k].arg = id})

\* C17: the chunk emitted for a CFG holds every block reachable from block 0
\* exactly once and no unreachable block, and the traversal of every CFG,
\* with back edges and self-loops, comes to its end.
C17_Traversal ==
    /\ [](epc = "done" =>
            \A k \in 1..Len(chunks) : \A id \in 0..(Len(cfg_list[k]) - 1) :
                Emitted(chunks[k], id) = IF id \in Reachable(cfg_list[k]) THEN 1 ELSE 0)
    /\ [][EmitNode => next_node_id \in Reachable(temp_cfg) \ done_ids]_vars
    /\ <>(epc = "done")

\* A CFG with a self-loop, a back edge to block 0 and an unreachable block
\* has been converted.
C17_Witness ==
    /\ epc = "done" /\ Len(cfg_list[1]) = 3
    /\ cfg_list[1][1].truthy_id = 1 /\ cfg_list[1][1].falsy_id = 0
    /\ cfg_list[1][2].truthy_id = 1 /\ cfg_list[1][2].falsy_id = 0
    /\ Reachable(cfg_list[1]) = {0, 1}
    /\ Len(chunks[1]) = 2

\* ------------------------------------------------- the semantic analyzer
\* semantics/analyzer.rs driven by compiler/driver.rs step_sema.  A body is a
\* sequence of statements [k, name]: "Let" declares an int variable with a
\* literal initializer, "Use" is an expression statement that names an
\* identifier, "Call" one that calls it without arguments.  A class is known
\* by its name, the empty name standing for the class id -1.  A note is
\* [kind, arity]; the kinds are those of SemanticNote.

BodyStmt(k, name) == [k |-> k, name |-> name]

Note(kind, arity) == [kind |-> kind, arity |-> arity]
NoteDud == Note("Dud", 0)
DataValue == Note("DataValue", 0)

NoClass == ""

Analyzer_new ==
    [scopes |-> <<NoEntries>>, class_blueprints |-> NoEntries,
     current_class_id |-> NoClass, current_class_mod |-> "Hidden",
     prepass_flag |-> TRUE, looked |-> <<>>]

\* Scope::try_set_entry: the scope and the bool.
try_set_entry(scope, name, arg) ==
    IF HasKey(scope, name) THEN [scope |-> scope, ok |-> FALSE]
    ELSE [scope |-> Insert(scope, name, arg), ok |-> TRUE]

enter_scope(an) == [an EXCEPT !.scopes = Append(@, NoEntries)]

leave_scope(an) ==
    IF Len(an.scopes) <= 1 THEN an
    ELSE [an EXCEPT !.scopes = SubSeq(@, 1, Len(@) - 1)]

\* ScopeStack::lookup_name_info: `for scope in &self.scopes` walks the Vec
\* from its first element, the global scope.
RECURSIVE scopes_lookup_name_info(_, _, _)
scopes_lookup_name_info(scopes, name, i) ==
    IF i > Len(scopes) THEN NoteDud
    ELSE IF HasKey(scopes[i], name) THEN scopes[i][name]
    ELSE scopes_lookup_name_info(scopes, name, i + 1)

\* Analyzer::lookup_name_info: the note; `looked` keeps what was asked, in
\* which scopes and class, and what was answered.
lookup_name_info(an, name) ==
    LET in_class == /\ an.current_class_id # NoClass
                    /\ HasKey(an.class_blueprints, an.current_class_id)
                    /\ HasKey(an.class_blueprints[an.current_class_id], name)
        note == IF in_class
                THEN an.class_blueprints[an.current_class_id][name].note
                ELSE scopes_lookup_name_info(an.scopes, name, 1)
    IN  [an |-> [an EXCEPT !.looked = Append(@, [name |-> name, note |-> note,
                                                 scopes |-> an.scopes,
                                                 class_id |-> an.current_class_id])],
         note |-> note]

\* ClassBlueprint::try_set_entry is HashMap::insert(..).is_none().
record_class_member_info(an, class_id, name, access_mod_arg, note_arg) ==
    IF ~HasKey(an.class_blueprints, class_id) THEN [an |-> an, ok |-> FALSE]
    ELSE [an |-> [an EXCEPT !.class_blueprints[class_id] =
                     Insert(@, name, [note |-> note_arg, access_mod |-> access_mod_arg])],
          ok |-> ~HasKey(an.class_blueprints[class_id], name)]

record_name_info(an, name, info, mode) ==
    CASE mode = "Local" ->
            LET r == try_set_entry(an.scopes[Len(an.scopes)], name, info) IN
            [an |-> [an EXCEPT !.scopes[Len(an.scopes)] = r.scope], ok |-> r.ok]
      [] mode = "Global" ->
            LET r == try_set_entry(an.scopes[1], name, info) IN
            [an |-> [an EXCEPT !.scopes[1] = r.scope], ok |-> r.ok]
      [] OTHER ->
            record_class_member_info(an, an.current_class_id, name,
                                     an.current_class_mod, info)

\* BlueprintTable::try_set_entry is HashMap::insert(..).is_none().
record_new_class_bp(an, type_id) ==
    [an |-> [an EXCEPT !.class_blueprints = Insert(@, type_id, NoEntries)],
     ok |-> ~HasKey(an.class_blueprints, type_id)]

\* The loops that record the parameters and drop record_name_info's result.
RECURSIVE record_params(_, _, _)
record_params(an, params, i) ==
    IF i > Len(params) THEN an
    ELSE Only({record_params(r.an, params, i + 1) :
                  r \in {record_name_info(an, params[i], DataValue, "Local")}})

\* visit_call without arguments: the callee's note decides.
sema_visit_call(an, name) ==
    Only({[an |-> r.an,
           note |-> IF r.note.kind \in {"Callable", "Method"} /\ r.note.arity = 0
                    THEN DataValue ELSE NoteDud] : r \in {lookup_name_info(an, name)}})

\* visit_variable_decl and visit_expr_stmt: the analyzer and the bool.
\* The note of a variable whose type is a class.
ClassEntity(class_id) == [kind |-> "ClassEntity", arity |-> 0, class_id |-> class_id]

\* SemanticNote::try_unbox_class_info_id(..).unwrap_or(-1)
try_unbox_class_info_id(note) ==
    IF note.kind = "ClassEntity" THEN note.class_id ELSE NoClass

\* current_name_accessible as lookup_name_info leaves it for `name`.
name_accessible(an, name) ==
    IF /\ an.current_class_id # NoClass
       /\ HasKey(an.class_blueprints, an.current_class_id)
       /\ HasKey(an.class_blueprints[an.current_class_id], name)
    THEN an.class_blueprints[an.current_class_id][name].access_mod
    ELSE IF scopes_lookup_name_info(an.scopes, name, 1) = NoteDud
    THEN "Hidden" ELSE "Exposed"

\* visit_expr_stmt of the member access `name.member`, through visit_binary
\* with OperatorTag::Access and visit_primitive on both names.
sema_visit_access(an, stmt) ==
    LET l == lookup_name_info(an, stmt.name)
        a1 == IF an.current_class_id = NoClass
              THEN [l.an EXCEPT !.current_class_id = try_unbox_class_info_id(l.note)]
              ELSE l.an
        r == lookup_name_info(a1, stmt.member)
        hidden == \/ name_accessible(an, stmt.name) = "Hidden"
                  \/ name_accessible(a1, stmt.member) = "Hidden"
    IN  [an |-> r.an, ok |-> r.note # NoteDud /\ ~hidden]

\* visit_variable_decl of `let name: class = class();`.
sema_visit_instance_decl(an, stmt) ==
    LET note == IF HasKey(an.class_blueprints, stmt.class)
                THEN ClassEntity(stmt.class) ELSE DataValue
        r == record_name_info(an, stmt.name, note, "Local")
        init == sema_visit_call(r.an, stmt.class)
    IN  IF ~r.ok THEN r ELSE [an |-> init.an, ok |-> init.note # NoteDud]

sema_visit_stmt(an, stmt) ==
    CASE stmt.k = "Let" -> record_name_info(an, stmt.name, DataValue, "Local")
      [] stmt.k = "Use" ->
            Only({[an |-> r.an, ok |-> r.note # NoteDud] :
                     r \in {lookup_name_info(an, stmt.name)}})
      [] stmt.k = "LetObj" -> sema_visit_instance_decl(an, stmt)
      [] stmt.k = "Access" -> sema_visit_access(an, stmt)
      [] OTHER ->
            Only({[an |-> r.an, ok |-> r.note # NoteDud] :
                     r \in {sema_visit_call(an, stmt.name)}})

RECURSIVE sema_visit_block(_, _, _)
sema_visit_block(an, items, i) ==
    IF i > Len(items) THEN [an |-> an, ok |-> TRUE]
    ELSE Only({IF r.ok THEN sema_visit_block(r.an, items, i + 1) ELSE r :
                  r \in {sema_visit_stmt(an, items[i])}})

\* The second-pass branch of a function, constructor or method.
sema_visit_body(an, s) ==
    Only({[an |-> leave_scope(r.an), ok |-> r.ok] :
             r \in {sema_visit_block(a1, s.body, 1) :
                       a1 \in {record_params(enter_scope(an), s.params, 1)}}})

sema_visit_foreign_stub(an, s) ==
    IF ~an.prepass_flag THEN [an |-> an, ok |-> TRUE]
    ELSE Only({record_name_info(a1, s.name, Note("Callable", Len(s.params)), "Global") :
                  a1 \in {record_params(an, s.params, 1)}})

sema_visit_function_decl(an, s) ==
    IF ~an.prepass_flag THEN sema_visit_body(an, s)
    ELSE record_name_info(an, s.name, Note("Callable", Len(s.params)), "Global")

sema_visit_field_decl(an, s) ==
    IF an.prepass_flag
    THEN [an |-> record_name_info(an, s.name, DataValue, "Member").an, ok |-> TRUE]
    ELSE [an |-> an, ok |-> TRUE]

sema_visit_constructor_decl(an, s) ==
    LET ctor_class_id == an.current_class_id
        ctor_access_mod == an.current_class_mod
    IN  IF ctor_class_id = NoClass THEN [an |-> an, ok |-> FALSE]
        ELSE IF ~an.prepass_flag THEN sema_visit_body(an, s)
        ELSE Only({IF ~r.ok THEN r
                   ELSE IF ctor_access_mod = "Hidden" THEN [an |-> r.an, ok |-> FALSE]
                   ELSE record_name_info(r.an, ctor_class_id,
                                         Note("Callable", Len(s.params)), "Global") :
                      r \in {record_class_member_info(an, ctor_class_id, ctor_class_id,
                                 ctor_access_mod, Note("Constructor", Len(s.params)))}})

sema_visit_method_decl(an, s) ==
    IF ~an.prepass_flag THEN sema_visit_body(an, s)
    ELSE record_name_info(an, s.name, Note("Method", Len(s.params)), "Member")

sema_visit_member(an, m) ==
    Only({CASE m.kind = "Field" -> sema_visit_field_decl(a1, m)
            [] m.kind = "Ctor" -> sema_visit_constructor_decl(a1, m)
            [] OTHER -> sema_visit_method_decl(a1, m) :
             a1 \in {[an EXCEPT !.current_class_mod = m.mod]}})

\* Either member loop of visit_class_decl.
RECURSIVE sema_visit_members(_, _, _)
sema_visit_members(an, members, i) ==
    IF i > Len(members) THEN [an |-> an, ok |-> TRUE]
    ELSE Only({IF r.ok THEN sema_visit_members(r.an, members, i + 1) ELSE r :
                  r \in {sema_visit_member(an, members[i])}})

sema_visit_class_decl(an, s) ==
    IF an.prepass_flag THEN record_new_class_bp(an, s.name)
    ELSE Only({IF ~r1.ok THEN r1
               ELSE Only({IF ~r2.ok THEN r2
                          ELSE [an |-> [r2.an EXCEPT !.current_class_id = NoClass],
                                ok |-> TRUE] :
                             r2 \in {sema_visit_members(
                                        [r1.an EXCEPT !.prepass_flag = FALSE],
                                        s.members, 1)}}) :
                  r1 \in {sema_visit_members(
                            [an EXCEPT !.prepass_flag = TRUE,
                                       !.current_class_id = s.name],
                            s.members, 1)}})

check_top_ast(an, d) ==
    CASE d.kind = "Fun" -> sema_visit_function_decl(an, d)
      [] d.kind = "Stub" -> sema_visit_foreign_stub(an, d)
      [] OTHER -> sema_visit_class_decl(an, d)

\* The programs the analyzer is run on.
SemaFuns ==
    {FunctionDecl("f", <<>>, <<>>),
     FunctionDecl("f", <<"x">>, <<BodyStmt("Use", "x")>>),
     FunctionDecl("f", <<"x", "x">>, <<>>),
     FunctionDecl("f", <<>>, <<BodyStmt("Let", "x"), BodyStmt("Let", "x")>>),
     FunctionDecl("f", <<>>, <<BodyStmt("Call", "x")>>),
     FunctionDecl("f", <<>>, <<BodyStmt("Call", "A")>>),
     FunctionDecl("x", <<>>, <<>>)}

SemaStubs == {ForeignStub("g", <<"y", "y">>)}

SemaMembers ==
    {FieldDecl("x", "Exposed"), ConstructorDecl(<<>>, <<>>, "Exposed"),
     MethodDecl("m", <<>>, <<BodyStmt("Use", "x")>>, "Exposed")}

SemaClasses == {ClassDecl("A", ms) : ms \in {<<>>} \cup SeqsUpTo(SemaMembers, MaxMembers)}

SemaDecls == SemaFuns \cup SemaStubs \cup SemaClasses

SemaFrame == <<full_ast, ir_emitter, loader, engine_vars, emitter_vars>>

SemaInit ==
    /\ EngineOff /\ EmitterOff
    /\ ir_emitter = [stage |-> "off"] /\ loader = [stage |-> "off"]
    /\ full_ast \in SeqsUpTo(SemaDecls, MaxDecls)
    /\ analyzer = Analyzer_new
    /\ sema_pc = [stage |-> "pass1", pos |-> 0]

\* One iteration of either loop of step_sema.
SemaVisit ==
    /\ sema_pc.stage \in {"pass1", "pass2"}
    /\ sema_pc.pos < Len(full_ast)
    /\ \E r \in {check_top_ast([analyzer EXCEPT !.looked = <<>>],
                                 full_ast[sema_pc.pos + 1])} :
          /\ analyzer' = r.an
          /\ sema_pc' = IF r.ok THEN [sema_pc EXCEPT !.pos = @ + 1]
                        ELSE [sema_pc EXCEPT !.stage = "failed"]
    /\ UNCHANGED SemaFrame

\* clear_preprocess_decls_flag between the loops.
SemaEndPrepass ==
    /\ sema_pc.stage = "pass1" /\ sema_pc.pos = Len(full_ast)
    /\ analyzer' = [analyzer EXCEPT !.prepass_flag = FALSE]
    /\ sema_pc' = [stage |-> "pass2", pos |-> 0]
    /\ UNCHANGED SemaFrame

\* step_sema returns true.
SemaFinish ==
    /\ sema_pc.stage = "pass2" /\ sema_pc.pos = Len(full_ast)
    /\ sema_pc' = [sema_pc EXCEPT !.stage = "ok"]
    /\ UNCHANGED <<analyzer, SemaFrame>>

SemaNext == SemaVisit \/ SemaEndPrepass \/ SemaFinish

SemaSpec == SemaInit /\ [][SemaNext]_vars

\* ------------------------------------------------- analyzer properties

\* The binding of a name in the innermost scope that has one.
RECURSIVE InnermostBinding(_, _, _)
InnermostBinding(scopes, name, i) ==
    IF i = 0 THEN NoteDud
    ELSE IF HasKey(scopes[i], name) THEN scopes[i][name]
    ELSE InnermostBinding(scopes, name, i - 1)

\* C18: a lookup made outside any class context answers with the binding of
\* the innermost scope that binds the name, searching from the current scope
\* outward to the global scope, and with Dud when no scope binds it.
C18_InnermostFirst ==
    \A i \in 1..Len(analyzer.looked) :
        LET l == analyzer.looked[i] IN
        l.class_id = NoClass =>
            l.note = InnermostBinding(l.scopes, l.name, Len(l.scopes))

HasDuplicate(names) ==
    \E i, j \in 1..Len(names) : i < j /\ names[i] = names[j]

\* The names of the variables a body declares, in order.
RECURSIVE LocalNames(_)
LocalNames(items) ==
    IF items = <<>> THEN <<>>
    ELSE (IF Head(items).k = "Let" THEN <<Head(items).name>> ELSE <<>>)
            \o LocalNames(Tail(items))

\* The names the declarations of the given kinds declare, in order.
RECURSIVE DeclNames(_, _)
DeclNames(decls, kinds) ==
    IF decls = <<>> THEN <<>>
    ELSE (IF Head(decls).kind \in kinds THEN <<Head(decls).name>> ELSE <<>>)
            \o DeclNames(Tail(decls), kinds)

\* A procedure (function, constructor, method or stub) declares a parameter
\* twice or a local variable twice.
RedeclaresInside(d) ==
    d.kind \in {"Fun", "Stub", "Ctor", "Method"}
        /\ (HasDuplicate(d.params) \/ HasDuplicate(LocalNames(d.body)))

\* A class declares a field or method name twice, or two constructors, or
\* one of its members redeclares inside.
RedeclaresMember(d) ==
    d.kind = "Class"
        /\ \/ HasDuplicate(DeclNames(d.members, {"Field", "Method"}))
           \/ HasDuplicate(DeclNames(d.members, {"Ctor"}))
           \/ \E i \in 1..Len(d.members) : RedeclaresInside(d.members[i])

Redeclares(decls) ==
    \/ HasDuplicate(DeclNames(decls, {"Fun", "Stub"}))
    \/ HasDuplicate(DeclNames(decls, {"Class"}))
    \/ \E i \in 1..Len(decls) : RedeclaresInside(decls[i]) \/ RedeclaresMember(decls[i])

\* C19: a program that declares a name twice in one scope, be it a local
\* variable, a parameter, a procedure, a foreign stub, a class or a class
\* member, does not pass the semantic check.
C19_RedeclarationFails ==
    sema_pc.stage = "ok" => ~Redeclares(full_ast)

\* What the first pass is to have recorded for a declaration.
Recorded(an, d) ==
    CASE d.kind \in {"Fun", "Stub"} ->
            HasKey(an.scopes[1], d.name) /\ an.scopes[1][d.name].kind = "Callable"
      [] OTHER ->
            /\ HasKey(an.class_blueprints, d.name)
            /\ \A i \in 1..Len(d.members) :
                  LET m == d.members[i] IN
                  IF m.kind = "Ctor"
                  THEN /\ HasKey(an.class_blueprints[d.name], d.name)
                       /\ HasKey(an.scopes[1], d.name)
                  ELSE HasKey(an.class_blueprints[d.name], m.name)

\* The names a function body may call: the functions, the stubs and the
\* classes that have a constructor.
TopNames(decls) ==
    {decls[i].name : i \in {k \in 1..Len(decls) :
        \/ decls[k].kind \in {"Fun", "Stub"}
        \/ decls[k].kind = "Class" /\ DeclNames(decls[k].members, {"Ctor"}) # <<>>}}

\* C20: when pass 2 begins, every function, every foreign stub and every
\* class with its fields, methods and constructor is recorded, and in pass 2
\* a function body that names a function or a class of the program finds it,
\* wherever in the declaration order it is declared.
C20_ForwardReferences ==
    /\ sema_pc.stage = "pass2" =>
          \A i \in 1..Len(full_ast) : Recorded(analyzer, full_ast[i])
    /\ \A i \in 1..Len(analyzer.looked) :
          LET l == analyzer.looked[i] IN
          l.class_id = NoClass /\ l.name \in TopNames(full_ast) => l.note # NoteDud

\* ------------------------------------------------------ the import loader
\* compiler/driver.rs step_parse over a file system of three sources that
\* import each other in any way; "z" names a source that does not exist.
\* `imports` gives the import statements of a source in the order they are
\* written; parse_import puts each at the front of next_sources.  `reads`
\* counts how often a source was read and parsed, `asts` lists the sources
\* whose declarations were added to the program.

MaxImports == 2

SourceNames == {"main", "a", "b"}
ImportLists == {<<>>} \cup SeqsUpTo(SourceNames \cup {"z"}, MaxImports)

Reverse(q) == [i \in 1..Len(q) |-> q[Len(q) + 1 - i]]

\* parse_file: the successors of a source, the last import first.
tu_successors_of(imports) == Reverse(imports)

\* The loop that queues the successors not yet finished.
RECURSIVE queue_successors(_, _, _, _)
queue_successors(frontier, finished, succs, i) ==
    IF i > Len(succs) THEN frontier
    ELSE queue_successors(IF succs[i] \in finished THEN frontier
                          ELSE Append(frontier, succs[i]),
                          finished, succs, i + 1)

LoadFrame == <<full_ast, analyzer, sema_pc, ir_emitter, engine_vars, emitter_vars>>

LoadInit ==
    /\ EngineOff /\ EmitterOff
    /\ full_ast = <<>> /\ analyzer = <<>>
    /\ sema_pc = [stage |-> "off"] /\ ir_emitter = [stage |-> "off"]
    /\ \E imports \in [SourceNames -> ImportLists] :
          loader = [stage |-> "loop", imports |-> imports,
                    source_frontier |-> <<"main">>, finished_srcs |-> {},
                    reads |-> [n \in SourceNames |-> 0], asts |-> <<>>]

\* One iteration of the loop of step_parse.
LoadSource ==
    /\ loader.stage = "loop" /\ loader.source_frontier # <<>>
    /\ LET next_src_name == loader.source_frontier[Len(loader.source_frontier)]
           rest == SubSeq(loader.source_frontier, 1, Len(loader.source_frontier) - 1)
       IN  IF next_src_name \notin SourceNames
           THEN loader' = [loader EXCEPT !.stage = "failed", !.source_frontier = rest]
           ELSE loader' = [loader EXCEPT
                    !.reads[next_src_name] = @ + 1,
                    !.asts = Append(@, next_src_name),
                    !.finished_srcs = @ \cup {next_src_name},
                    !.source_frontier = queue_successors(rest,
                          loader.finished_srcs \cup {next_src_name},
                          tu_successors_of(loader.imports[next_src_name]), 1)]
    /\ UNCHANGED LoadFrame

\* The frontier is empty: step_parse returns the program.
LoadDone ==
    /\ loader.stage = "loop" /\ loader.source_frontier = <<>>
    /\ loader' = [loader EXCEPT !.stage = "done"]
    /\ UNCHANGED LoadFrame

LoadNext == LoadSource \/ LoadDone

LoadSpec == LoadInit /\ [][LoadNext]_vars /\ WF_vars(LoadNext)

\* C21: no source file is read and parsed more than once, however many
\* files import it and in whatever order they are found, and the loading
\* loop comes to its end, also when imports form a cycle.
C21_LoadOnce ==
    /\ [](\A n \in SourceNames : loader.reads[n] <= 1)
    /\ <>(loader.stage \in {"done", "failed"})

\* ------------------------------------------------------ constant pools
\* codegen/ir_emitter.rs record_proto_constant on the pool of the procedure
\* being lowered (the last of proto_constants), for the constants that
\* visit_primitive records: Bool, Char, Int, Float and HeapRef values.

MaxRecordings == 4
MaxPools == 2

LiteralValues ==
    {VBool(TRUE), VBool(FALSE), VChar(0), VChar(1), VInt(0), VInt(1),
     VFloat(1, 2), VFloat(2, 4), VFloat(1, 1), VHeapRef(0), VHeapRef(1)}


ConstFrame ==
    <<full_ast, analyzer, sema_pc, loader, engine_vars, emitter_vars>>

\* enter_fun_scope has opened the pool of the first procedure.
ConstInit ==
    /\ EngineOff /\ EmitterOff
    /\ full_ast = <<>> /\ analyzer = <<>>
    /\ sema_pc = [stage |-> "off"] /\ loader = [stage |-> "off"]
    /\ ir_emitter = [stage |-> "consts", proto_constants |-> << <<>> >>,
                     recordings |-> 0, item |-> VEmpty, locator |-> <<"None", -1>>]

RecordConstant ==
    /\ ir_emitter.stage = "consts" /\ ir_emitter.recordings < MaxRecordings
    /\ \E item \in LiteralValues :
          \E r \in {record_proto_constant(
                      ir_emitter.proto_constants[Len(ir_emitter.proto_constants)],
                      item)} :
             ir_emitter' = [ir_emitter EXCEPT
                  !.proto_constants[Len(ir_emitter.proto_constants)] = r.pool,
                  !.recordings = @ + 1, !.item = item, !.locator = r.locator]
    /\ UNCHANGED ConstFrame

\* enter_fun_scope: the next procedure gets an empty pool.
EnterFunScope ==
    /\ ir_emitter.stage = "consts" /\ Len(ir_emitter.proto_constants) < MaxPools
    /\ ir_emitter' = [ir_emitter EXCEPT !.proto_constants = Append(@, <<>>),
                                        !.item = VEmpty, !.locator = <<"None", -1>>]
    /\ UNCHANGED ConstFrame

ConstNext == RecordConstant \/ EnterFunScope

ConstSpec == ConstInit /\ [][ConstNext]_vars

\* C25: in every procedure's constant pool no two entries are equal by
\* value, after any sequence of recordings, and the locator returned for a
\* recorded constant is the index of a pool entry equal to that constant.
C25_Interned ==
    /\ \A p \in 1..Len(ir_emitter.proto_constants) :
          LET pool == ir_emitter.proto_constants[p] IN
          \A i, j \in 1..Len(pool) : i < j => pool[i] # pool[j]
    /\ ir_emitter.locator[2] # -1 =>
          LET pool == ir_emitter.proto_constants[Len(ir_emitter.proto_constants)] IN
          /\ ir_emitter.locator[2] < Len(pool)
          /\ pool[ir_emitter.locator[2] + 1] = ir_emitter.item

\* A constant recorded a second time, after others, in the second
\* procedure's pool has been answered with its first position.
C25_Witness ==
    /\ Len(ir_emitter.proto_constants) = 2
    /\ Len(ir_emitter.proto_constants[2]) = 2
    /\ ir_emitter.recordings = 4
    /\ ir_emitter.item = VFloat(2, 4) /\ ir_emitter.locator = <<"Immediate", 0>>

\* ------------------------------------------------- expression checking
\* semantics/analyzer.rs visit_unary and visit_call as functions of the
\* notes of their sub-expressions.  A typed note has the fields of all the
\* variants of SemanticNote: type_id and category for a data value or a class
\* entity, params (the parameter type ids), type_id (the result type id) and
\* arity for a callable or a method.

BOOLEAN_TYPE_ID_N == 0
CHAR_TYPE_ID_N == 1
INTEGER_TYPE_ID_N == 2
FLOATING_TYPE_ID_N == 3
VARCHAR_TYPE_ID_N == 4
ANY_TYPE_ID_N == 5
\* The id record_type gives to the first class of a program.
FIRST_CLASS_TYPE_ID == 6

TypedNote(kind, type_id, category, params, arity) ==
    [kind |-> kind, type_id |-> type_id, category |-> category,
     params |-> params, arity |-> arity]

TDud == TypedNote("Dud", -1, "Unknown", <<>>, 0)
TDataValue(type_id, category) == TypedNote("DataValue", type_id, category, <<>>, 0)
TClassEntity(type_id, category) == TypedNote("ClassEntity", type_id, category, <<>>, 0)
TCallable(params, result_type_id, arity) ==
    TypedNote("Callable", result_type_id, "Unknown", params, arity)
TMethod(params, result_type_id, arity) ==
    TypedNote("Method", result_type_id, "Unknown", params, arity)

try_unbox_data_value(note) == note.kind = "DataValue"

visit_unary(expr_op, expr_inner_type) ==
    IF ~(expr_op = "Negate" /\ try_unbox_data_value(expr_inner_type)) THEN TDud
    ELSE IF expr_inner_type.type_id \in {1, 2}
    THEN TDataValue(expr_inner_type.type_id, "Temporary")
    ELSE TDud

\* The loop over the arguments of a call: TRUE when every argument is a data
\* value of the expected type or the expected type is `any`.
RECURSIVE check_call_args(_, _, _)
check_call_args(expected, arg_notes, arg_it) ==
    IF arg_it >= Len(arg_notes) THEN TRUE
    ELSE LET arg == arg_notes[arg_it + 1]
             expected_type_id == expected[arg_it + 1]
         IN  /\ arg.kind = "DataValue"
             /\ expected_type_id = ANY_TYPE_ID_N \/ expected_type_id = arg.type_id
             /\ check_call_args(expected, arg_notes, arg_it + 1)

\* visit_call whose argument loop accepts any data value.
visit_call_untyped(callee_info, arg_notes) ==
    IF callee_info.kind \notin {"Callable", "Method"} THEN TDud
    ELSE IF Len(arg_notes) # callee_info.arity THEN TDud
    ELSE IF \E i \in 1..Len(arg_notes) : arg_notes[i].kind # "DataValue" THEN TDud
    ELSE TDataValue(callee_info.type_id, "Temporary")

visit_call(callee_info, arg_notes) ==
    IF callee_info.kind = "Dud" THEN TDud
    ELSE IF callee_info.kind \notin {"Callable", "Method"} THEN TDud
    ELSE IF Len(arg_notes) # callee_info.arity THEN TDud
    ELSE IF ~check_call_args(callee_info.params, arg_notes, 0) THEN TDud
    ELSE TDataValue(callee_info.type_id, "Temporary")

MaxArgs == 2

TypeIds == BOOLEAN_TYPE_ID_N..FIRST_CLASS_TYPE_ID
ParamTypeIds == {BOOLEAN_TYPE_ID_N, INTEGER_TYPE_ID_N, ANY_TYPE_ID_N}

OperandNotes ==
    {TDud, TCallable(<<>>, INTEGER_TYPE_ID_N, 0),
     TClassEntity(FIRST_CLASS_TYPE_ID, "Identity")}
        \cup {TDataValue(t, c) : t \in TypeIds, c \in {"Temporary", "Identity"}}

ArgNotes ==
    {TDud, TClassEntity(FIRST_CLASS_TYPE_ID, "Identity"),
     TDataValue(BOOLEAN_TYPE_ID_N, "Temporary"),
     TDataValue(INTEGER_TYPE_ID_N, "Identity")}

\* A callable's arity is the number of its parameters.
CalleeNotes ==
    {TDud, TDataValue(INTEGER_TYPE_ID_N, "Identity"),
     TypedNote("Constructor", FIRST_CLASS_TYPE_ID, "Unknown", <<>>, 0)}
        \cup {TypedNote(k, r, "Unknown", ps, Len(ps)) :
                 k \in {"Callable", "Method"},
                 r \in {INTEGER_TYPE_ID_N, FIRST_CLASS_TYPE_ID},
                 ps \in {<<>>} \cup SeqsUpTo(ParamTypeIds, MaxArgs)}

OperatorTags == {"Negate", "Access"}

ExprFrame == <<full_ast, analyzer, ir_emitter, loader, engine_vars, emitter_vars>>

ExprIdle ==
    [stage |-> "expr", visited |-> "none", op |-> "none", inner |-> TDud,
     callee |-> TDud, args |-> <<>>, result |-> TDud]

ExprInit ==
    /\ EngineOff /\ EmitterOff
    /\ full_ast = <<>> /\ analyzer = <<>>
    /\ ir_emitter = [stage |-> "off"] /\ loader = [stage |-> "off"]
    /\ sema_pc = ExprIdle

VisitUnary ==
    /\ sema_pc.stage = "expr"
    /\ \E op \in OperatorTags, inner \in OperandNotes :
          sema_pc' = [ExprIdle EXCEPT !.visited = "unary", !.op = op, !.inner = inner,
                                      !.result = visit_unary(op, inner)]
    /\ UNCHANGED ExprFrame

VisitCall ==
    /\ sema_pc.stage = "expr"
    /\ \E callee \in CalleeNotes, args \in {<<>>} \cup SeqsUpTo(ArgNotes, MaxArgs) :
          sema_pc' = [ExprIdle EXCEPT !.visited = "call", !.callee = callee,
                                      !.args = args, !.result = visit_call(callee, args)]
    /\ UNCHANGED ExprFrame

ExprNext == VisitUnary \/ VisitCall

ExprSpec == ExprInit /\ [][ExprNext]_vars

\* C26: the note of unary `-` is DataValue(type of the operand, Temporary)
\* when the operand is a data value of type int or float, and Dud for an
\* operand of any other type or a note that is no data value.
C26_NegateNumeric ==
    sema_pc.visited = "unary" /\ sema_pc.op = "Negate" =>
        sema_pc.result =
            IF /\ sema_pc.inner.kind = "DataValue"
               /\ sema_pc.inner.type_id \in {INTEGER_TYPE_ID_N, FLOATING_TYPE_ID_N}
            THEN TDataValue(sema_pc.inner.type_id, "Temporary")
            ELSE TDud

\* Every argument has the declared parameter's type, or the parameter is any.
ArgsAgree(callee, args) ==
    \A i \in 1..Len(args) :
        callee.params[i] = ANY_TYPE_ID_N \/ callee.params[i] = args[i].type_id

\* C27: the note of a call is DataValue(declared return type, Temporary) or
\* Dud, and it is not Dud only if the callee's note is callable, the number
\* of arguments is the declared arity and each argument has the type of its
\* parameter unless that parameter is declared any.
C27_CallChecked ==
    sema_pc.visited = "call" =>
        /\ sema_pc.result \in {TDud, TDataValue(sema_pc.callee.type_id, "Temporary")}
        /\ sema_pc.result # TDud =>
              /\ sema_pc.callee.kind \in {"Callable", "Method"}
              /\ Len(sema_pc.args) = sema_pc.callee.arity
              /\ ArgsAgree(sema_pc.callee, sema_pc.args)

\* A call of a two-parameter callable with one `any` parameter has passed,
\* and one with a mistyped argument has been refused.
C27_Witness ==
    /\ sema_pc.visited = "call" /\ sema_pc.callee.kind = "Callable"
    /\ sema_pc.callee.params = <<ANY_TYPE_ID_N, INTEGER_TYPE_ID_N>>
    /\ sema_pc.args = <<TDataValue(BOOLEAN_TYPE_ID_N, "Temporary"),
                        TDataValue(INTEGER_TYPE_ID_N, "Identity")>>
    /\ sema_pc.result = TDataValue(sema_pc.callee.type_id, "Temporary")

\* -------------------------------------------------------- compile and run
\* main.rs on a program whose only procedure is main: emit_all_ir lowers
\* the body, generate_bytecode converts its CFG, Engine::new loads the
\* program and Engine::run executes it.

LOXIM_STACK_LIMIT == 128
MaxRun == 1400

IntLit(n) == Literal(VInt(n))
BoolLit(b) == Literal(VBool(b))
Assign(name, e) == ExprStmtOf(BinaryExpr("Assign", Identifier(name), e))

\* S2 of the specification.
ArithmeticMain ==
    <<VariableDecl("a", IntLit(3)), VariableDecl("b", IntLit(4)),
      ReturnStmt(BinaryExpr("Minus",
                     BinaryExpr("Plus", Identifier("a"), Identifier("b")),
                     IntLit(7)))>>

ArithOps == {"Plus", "Minus", "Times"}

\* The binary arithmetic expressions of at most two operators over leaves.
ArithExprs(leaves) ==
    LET one == {BinaryExpr(op, l, r) : op \in ArithOps, l \in leaves, r \in leaves}
    IN  one \cup {BinaryExpr(op, l, r) : op \in ArithOps, l \in one, r \in leaves}
            \cup {BinaryExpr(op, l, r) : op \in ArithOps, l \in leaves, r \in one}

\* Locals initialised by literals, then the return of an arithmetic
\* expression over them and literals.
ArithmeticMains ==
    {<<VariableDecl("a", IntLit(3)), VariableDecl("b", IntLit(4)), ReturnStmt(e)>> :
        e \in ArithExprs({Identifier("a"), Identifier("b"), IntLit(7)})}
      \cup {<<VariableDecl("a", IntLit(3)), ReturnStmt(e)>> :
               e \in ArithExprs({Identifier("a"), IntLit(3)})}
      \cup {<<ReturnStmt(e)>> : e \in ArithExprs({IntLit(3), IntLit(7)})}

\* S3 of the specification, with n = 2 and with n = 0.
ConditionalMain(n) ==
    <<VariableDecl("n", IntLit(n)),
      IfStmt(BinaryExpr("GreaterThan", Identifier("n"), IntLit(1)),
             <<ReturnStmt(IntLit(0))>>, <<ReturnStmt(IntLit(1))>>)>>

\* The locals c, x, y and z, an if on c whose branches store 1 in x and in
\* y, then `rest`: the slots of x, y and z tell which statements ran.
MarkedIf(c, truthy_body, falsy_body, rest) ==
    <<VariableDecl("c", c), VariableDecl("x", IntLit(0)),
      VariableDecl("y", IntLit(0)), VariableDecl("z", IntLit(0)),
      IfStmt(Identifier("c"), truthy_body, falsy_body)>> \o rest

IfChecks == {BoolLit(TRUE), BoolLit(FALSE), IntLit(3), IntLit(0)}
TruthyBodies == {<<Assign("x", IntLit(1))>>, <<ReturnStmt(IntLit(0))>>}
FalsyBodies == {<<>>, <<Assign("y", IntLit(1))>>, <<ReturnStmt(IntLit(0))>>}
IfRests == {<<ReturnStmt(IntLit(0))>>,
            <<Assign("z", IntLit(1)), ReturnStmt(IntLit(0))>>}

ConditionalMains ==
    {ConditionalMain(2), ConditionalMain(0)}
      \cup {MarkedIf(c, a, b, rest) :
               c \in IfChecks, a \in TruthyBodies, b \in FalsyBodies, rest \in IfRests}

\* S4 of the specification: count n down from `from` to 0, return it.
CountdownMain(from) ==
    <<VariableDecl("n", IntLit(from)),
      WhileStmt(BinaryExpr("GreaterThan", Identifier("n"), IntLit(0)),
                <<Assign("n", BinaryExpr("Minus", Identifier("n"), IntLit(1)))>>),
      ReturnStmt(Identifier("n"))>>

\* A loop on a flag that its body clears, then the return of 0.
FlagLoopMain(flag) ==
    <<VariableDecl("c", BoolLit(flag)), VariableDecl("x", IntLit(0)),
      WhileStmt(Identifier("c"),
                <<Assign("x", IntLit(1)), Assign("c", BoolLit(FALSE))>>),
      ReturnStmt(IntLit(0))>>

LoopMains ==
    {CountdownMain(from) : from \in {0, 1, 5}}
      \cup {FlagLoopMain(flag) : flag \in BOOLEAN}

Mains == ArithmeticMains \cup ConditionalMains \cup LoopMains

main_body == full_ast[1].body

\* emit_all_ir has lowered main; generate_bytecode is about to start.
RunInit ==
    /\ EngineOff
    /\ analyzer = <<>> /\ sema_pc = [stage |-> "off"] /\ loader = [stage |-> "off"]
    /\ \E body \in Mains : \E g \in {visit_function_body(body)} :
          /\ full_ast = <<FunctionDecl("main", <<>>, body)>>
          /\ ir_emitter = [stage |-> "lowered", has_error |-> g.has_error,
                           proto_constants |-> <<g.proto_constants>>,
                           main_id |-> 0]
          /\ cfg_list = <<g.nodes>>
    /\ cfg_id = 0
    /\ pending_node_ids = <<>> /\ pending_patches = <<>>
    /\ temp_instructions = <<>> /\ done_ids = {} /\ chunks = <<>>
    /\ epc = "next"

\* Engine::new on the generated program, with the sizes of main.rs; the
\* constants are those of the chunk that runs.
Boot ==
    /\ epc = "done" /\ phase = "off" /\ ~ir_emitter.has_error
    /\ constants' = ir_emitter.proto_constants[ir_emitter.main_id + 1]
    /\ heap' = ObjectHeap_new(LOXIM_HEAP_OVERHEAD_DEFAULT)
    /\ frames' = <<CallFrame(<<>>, 0, 0, 0, -1)>>
    /\ calls' = <<[NoCall EXCEPT !.kind = "Entry"]>>
    /\ stack' = Empties(LOXIM_STACK_LIMIT)
    /\ rpid' = ir_emitter.main_id /\ rip' = 0 /\ rbp' = 0 /\ rsp' = -1
    /\ status' = "Ok" /\ phase' = "running" /\ nat' = "Ok" /\ steps' = 0
    /\ last' = NoCall
    /\ UNCHANGED <<emitter_vars, front_vars>>

\* fetch_instruction
next_instr == chunks[rpid + 1][rip + 1]

\* The match of run() on an instruction of the programs above.
Dispatch(e, ins, oc) ==
    CASE ins.op = "Nop" -> do_nop(e)
      [] ins.op = "LoadConst" -> do_load_const(e, ins.a)
      [] ins.op = "Push" -> do_push(e, ins.a)
      [] ins.op = "Pop" -> do_pop(e)
      [] ins.op = "Replace" -> do_replace(e, ins.a, ins.b)
      [] ins.op = "Add" -> do_add(e, oc)
      [] ins.op = "Sub" -> do_sub(e, oc)
      [] ins.op = "Mul" -> do_mul(e, oc)
      [] ins.op = "CompareGt" -> do_cmp_gt(e)
      [] ins.op = "JumpElse" -> do_jump_else(e, ins.a, <<ins.b[1], ins.arg>>)
      [] ins.op = "Jump" -> do_jump(e, <<ins.a[1], ins.arg>>)
      [] ins.op = "Return" -> do_return(e, ins.a)

\* The unchecked accesses of the instruction at rip are in bounds.
StepDefined ==
    /\ rip >= 0 /\ rip < Len(chunks[rpid + 1])
    /\ next_instr.op \in {"Push", "JumpElse", "Return"} => FetchDefined(Eng, next_instr.a)
    /\ next_instr.op = "Replace" => ReplaceDefined(Eng, next_instr.a, next_instr.b)

\* One iteration of the loop of run().  An access out of bounds is
\* undefined: the process is killed, or it goes on past the instruction.
RunStep ==
    /\ phase = "running" /\ ~is_done(Eng) /\ steps < MaxRun
    /\ IF StepDefined
       THEN \E oc \in BOOLEAN : \E e \in {Dispatch(Eng, next_instr, oc)} :
               Exec(e, IF next_instr.op = "Return" THEN PoppedBy("Return") ELSE NoCall)
       ELSE \E e \in {Panic(Eng), do_nop(Eng)} : Exec(e, NoCall)

RunNext == EmitNext \/ Boot \/ RunStep \/ Finish

RunSpec == RunInit /\ [][RunNext]_vars

\* The mains with a loop; the compiler and the engine go on as long as they
\* have a step to take.
LoopInit == RunInit /\ main_body \in LoopMains

LoopSpec ==
    /\ LoopInit /\ [][RunNext]_vars
    /\ WF_vars(EmitNext) /\ WF_vars(Boot) /\ WF_vars(RunStep) /\ WF_vars(Finish)

\* ------------------------------------------------ properties of the runs

\* The literal each local of the body was initialised by.
LocalValues(body) ==
    [name \in {body[i].name : i \in {j \in 1..Len(body) : body[j].k = "Let"}} |->
        (CHOOSE i \in 1..Len(body) : body[i].k = "Let" /\ body[i].name = name) ]

RECURSIVE ValueOf(_, _)
\* The int an arithmetic expression denotes in a body.
ValueOf(e, body) ==
    CASE e.k = "Literal" -> e.val.v
      [] e.k = "Identifier" -> body[LocalValues(body)[e.name]].e.val.v
      [] e.op = "Plus" -> ValueOf(e.lhs[1], body) + ValueOf(e.rhs[1], body)
      [] e.op = "Minus" -> ValueOf(e.lhs[1], body) - ValueOf(e.rhs[1], body)
      [] e.op = "Times" -> ValueOf(e.lhs[1], body) * ValueOf(e.rhs[1], body)

\* C22: for a main whose locals are initialised by literals and whose return
\* expression is a binary arithmetic expression over them and literals, the
\* run ends with the value of that expression in stack[0]; the main of S2
\* (a = 3, b = 4, return a + b - 7) ends with Int(0) there and status Ok.
C22_ReturnValue ==
    (phase = "returned" /\ main_body \in ArithmeticMains) =>
        /\ stack[1] = VInt(ValueOf(main_body[Len(main_body)].e, main_body))
        /\ main_body = ArithmeticMain => status = "Ok"

\* The main is a MarkedIf; its parts.
IsMarkedIf == Len(main_body) >= 5 /\ main_body[5].k = "If"
if_stmt == main_body[5]
if_rest == SubSeq(main_body, 6, Len(main_body))
CheckHolds == test(main_body[1].e.val)
TakenBody == IF CheckHolds THEN if_stmt.a ELSE if_stmt.b
Returns(items) == \E i \in 1..Len(items) : items[i].k = "Return"
Stores(items, name) == \E i \in 1..Len(items) : items[i] = Assign(name, IntLit(1))
Mark(b) == VInt(IF b THEN 1 ELSE 0)

\* C23: the run of a main with `if c { A } else { B }` or `if c { A }`
\* executes A and not B when c is truthy, B and not A when c is falsy, and
\* then the statements after the if unless the branch taken returned: the
\* run returns Ok with 1 in x exactly if A was to store it, 1 in y exactly
\* if B was, and 1 in z exactly if control was to reach the store after the
\* if; the main of S3 returns 0 for n = 2 and 1 for n = 0.
C23_Branches ==
    /\ (phase = "returned" /\ IsMarkedIf) =>
          /\ status = "Ok"
          /\ stack[2] = Mark(CheckHolds /\ Stores(if_stmt.a, "x"))
          /\ stack[3] = Mark(~CheckHolds /\ Stores(if_stmt.b, "y"))
          /\ stack[4] = Mark(~Returns(TakenBody) /\ Stores(if_rest, "z"))
    /\ \A n \in {0, 2} :
          (phase = "returned" /\ main_body = ConditionalMain(n)) =>
              stack[1] = VInt(IF n > 1 THEN 0 ELSE 1)

\* LoopRan is the end of the run of a loop main that went as written.
LoopRan ==
    /\ phase = "returned" /\ status = "Ok"
    /\ \A flag \in BOOLEAN : main_body = FlagLoopMain(flag) => stack[2] = Mark(flag)
    /\ \A from \in {0, 1, 5} : main_body = CountdownMain(from) => stack[1] = VInt(0)

\* C24: the run of a main with a while loop evaluates the check before each
\* iteration, runs the body once per truthy evaluation and leaves the loop
\* at the first falsy one: the loop on a flag that its body clears stores 1
\* in x exactly if the flag was set, and the loop counting n down from 5, 1
\* or 0 to 0 ends; each run then returns Ok, the countdown with 0 in stack[0].
C24_LoopRuns == <>LoopRan

\* ------------------------------------------------- nested control flow
\* The lowering and the emission of a main whose body nests if, if/else and
\* while statements: emit_all_ir has lowered the body, generate_bytecode
\* converts its CFG.

\* Labelled mains: the check of every if and while is an int literal of its
\* own and every body ends with an expression statement on an int literal
\* of its own, so that the emitted LoadConst instructions tell where each
\* construct and each body went.  The body with number q ends with the
\* literal 2q; a construct in it has the check 2q + 1 and the bodies with
\* the numbers 3q + 1 (true body, loop body) and 3q + 2 (else body).
MaxNest == 2

EndOf(q) == ExprStmtOf(Literal(VInt(2 * q)))
CheckOf(q) == Literal(VInt(2 * q + 1))

RECURSIVE LabelledBodies(_, _)
LabelledBodies(d, q) ==
    IF d = 0 THEN {<<EndOf(q)>>}
    ELSE LET A == LabelledBodies(d - 1, 3 * q + 1)
             B == LabelledBodies(d - 1, 3 * q + 2)
         IN  {<<EndOf(q)>>}
             \cup {<<IfStmt(CheckOf(q), a, <<>>), EndOf(q)>> : a \in A}
             \cup {<<IfStmt(CheckOf(q), a, b), EndOf(q)>> : a \in A, b \in B}
             \cup {<<WhileStmt(CheckOf(q), a), EndOf(q)>> : a \in A}

LabelledMains == LabelledBodies(MaxNest, 0)

NestInit ==
    /\ EngineOff
    /\ analyzer = <<>> /\ sema_pc = [stage |-> "off"] /\ loader = [stage |-> "off"]
    /\ \E body \in Bodies \cup LabelledMains : \E g \in {visit_function_body(body)} :
          /\ full_ast = <<FunctionDecl("main", <<>>, body)>>
          /\ ir_emitter = [stage |-> "lowered", has_error |-> g.has_error,
                           proto_constants |-> <<g.proto_constants>>]
          /\ cfg_list = <<g.nodes>>
    /\ cfg_id = 0
    /\ pending_node_ids = <<>> /\ pending_patches = <<>>
    /\ temp_instructions = <<>> /\ done_ids = {} /\ chunks = <<>>
    /\ epc = "next"

NestSpec == NestInit /\ [][EmitNext]_vars

\* The blocks of the statements of a body, read off the statements: a block
\* statement opens a block, an if without else and an if/else end by opening
\* their join block, a while ends by opening its exit block.  A walk is
\* [n, cur, sites]: the number of blocks so far, the block that the next
\* statement goes to, and a site per if statement seen: the block that holds
\* its check (pre), the first block of its true body (t), the first block of
\* its else body (f, -1 without else) and its join block, and a site per
\* while statement: its head block (pre), the first block of its body (t),
\* its exit block (join).
Site(k, pre, t, f, join) == [k |-> k, pre |-> pre, t |-> t, f |-> f, join |-> join]

RECURSIVE WalkStmt(_, _), WalkItems(_, _, _)

WalkBlock(w, items) ==
    WalkItems([w EXCEPT !.n = @ + 1, !.cur = w.n], items, 1)

WalkItems(w, items, i) ==
    IF i > Len(items) THEN w ELSE WalkItems(WalkStmt(w, items[i]), items, i + 1)

WalkStmt(w, s) ==
    CASE s.k = "If" /\ s.b = <<>> ->
            Only({[n |-> a.n + 1, cur |-> a.n,
                   sites |-> a.sites \cup {Site("If", w.cur, w.n, -1, a.n)}]
                  : a \in {WalkBlock(w, s.a)}})
      [] s.k = "If" /\ s.b # <<>> ->
            Only({Only({[n |-> b.n + 1, cur |-> b.n,
                         sites |-> b.sites \cup {Site("If", w.cur, w.n, a.n, b.n)}]
                        : b \in {WalkBlock(a, s.b)}})
                  : a \in {WalkBlock(w, s.a)}})
      [] s.k = "While" ->
            Only({[n |-> a.n + 1, cur |-> a.n,
                   sites |-> a.sites \cup {Site("While", w.cur, w.n, -1, a.n)}]
                  : a \in {WalkBlock(w, s.a)}})
      [] OTHER -> w

Sites(body) == WalkBlock([n |-> 0, cur |-> -1, sites |-> {}], body).sites

\* Block `to` is reached from block `from` along successor edges.
LeadsTo(cfg, from, to) == to \in Closure(cfg, {from})

\* The links of the if statement at a site are those of the specification.
IfLinked(cfg, site) ==
    /\ cfg[site.pre + 1].truthy_id = site.t
    /\ cfg[site.pre + 1].falsy_id = IF site.f = -1 THEN site.join ELSE site.f
    /\ LeadsTo(cfg, site.t, site.join)
    /\ site.f # -1 => LeadsTo(cfg, site.f, site.join)

\* C30: for every if statement of a lowered body, nested or not, the block
\* holding the check has the first block of the true body as its truthy
\* successor and the first block of the else body (the join block when
\* there is no else) as its falsy successor, and the join block appended
\* after the statement is reached from the true body and from the else body.
C30_IfLinks ==
    \A site \in Sites(main_body) : site.k = "If" => IfLinked(cfg_list[1], site)

\* The position in the code of the LoadConst of a literal, 0 if there is none.
LabelPos(code, literal) ==
    LET at == {p \in 1..Len(code) :
                  /\ code[p].op = "LoadConst"
                  /\ code[p].arg + 1 \in 1..Len(ir_emitter.proto_constants[1])
                  /\ ir_emitter.proto_constants[1][code[p].arg + 1] = literal.val}
    IN  IF at = {} THEN 0 ELSE CHOOSE p \in at : TRUE

\* The jump target `to` is a Nop from which the run falls, through Nops
\* only, into the code of the literal.
Lands(code, to, literal) ==
    /\ to + 1 \in 1..Len(code) /\ code[to + 1].op = "Nop"
    /\ LabelPos(code, literal) > to + 1
    /\ \A r \in (to + 2)..(LabelPos(code, literal) - 1) : code[r].op = "Nop"

\* The jump `op` that follows the code of literal `from` at distance `off`
\* lands before the code of literal `to`.
JumpLands(code, from, off, op, to) ==
    /\ LabelPos(code, from) > 0
    /\ LabelPos(code, from) + off \in 1..Len(code)
    /\ code[LabelPos(code, from) + off].op = op
    /\ Lands(code, code[LabelPos(code, from) + off].arg, to)

\* The JumpElse of a construct follows the LoadConst of its check, the Jump
\* closing a body follows the LoadConst and the Pop of the body's last
\* statement.
RECURSIVE Patched(_, _)
Patched(code, items) ==
    \A i \in 1..Len(items) :
        LET s == items[i] IN
        s.k \in {"If", "While"} =>
            /\ Patched(code, s.a) /\ Patched(code, s.b)
            /\ JumpLands(code, s.e, 1, "JumpElse",
                         IF s.k = "If" /\ s.b # <<>> THEN s.b[1].e
                         ELSE items[i + 1].e)
            /\ JumpLands(code, s.a[Len(s.a)].e, 2, "Jump",
                         IF s.k = "While" THEN s.e ELSE items[i + 1].e)

\* C28: in the code of a main that nests if, if/else and while, the
\* JumpElse of an if targets the Nop before its else body, or before what
\* follows the if when it has no else, the Jump closing a true body targets
\* the Nop before what follows the if, the JumpElse of a while targets the
\* Nop before what follows the while and the Jump closing a loop body
\* targets the Nop at the head of its own loop: no jump gets the landing of
\* another construct.
C28_OwnLanding ==
    (epc = "done" /\ main_body \in LabelledMains) => Patched(chunks[1], main_body)

\* ------------------------------------------------- the order of emission
\* convert_ir_cfg_to_chunk on the CFGs that the lowering makes: the blocks
\* and links of a lowered main, every block holding one LoadConst whose
\* operand is the block's id, so that the code shows the order of emission.

OrderInit ==
    /\ EngineOff /\ FrontOff
    /\ cfg_list \in {<<Marked(visit_function_decl(body))>> :
                        body \in Bodies \cup LabelledMains}
    /\ cfg_id = 0
    /\ pending_node_ids = <<>> /\ pending_patches = <<>>
    /\ temp_instructions = <<>> /\ done_ids = {} /\ chunks = <<>>
    /\ epc = "next"

OrderSpec == OrderInit /\ [][EmitNext]_vars

\* The place of a block in the code emitted so far, 0 if it is not there.
Pos(id) ==
    LET at == {p \in 1..Len(temp_instructions) : temp_instructions[p].arg = id}
    IN  IF at = {} THEN 0 ELSE CHOOSE p \in at : TRUE

Branches(node) == node.truthy_id # -1 /\ node.falsy_id # -1
FallsThrough(node) == node.truthy_id # -1 /\ node.falsy_id = -1

\* The branch blocks pending when block `id` was emitted: the successors of
\* the two-successor blocks emitted before it that were not emitted by then.
PendingAt(cfg, id) ==
    {x \in 0..(Len(cfg) - 1) :
        /\ ~(Pos(x) > 0 /\ Pos(x) <= Pos(id))
        /\ \E a \in 0..(Len(cfg) - 1) :
              /\ Pos(a) > 0 /\ Pos(a) < Pos(id) /\ Branches(cfg[a + 1])
              /\ x \in {cfg[a + 1].truthy_id, cfg[a + 1].falsy_id}}

TruthyFirst(cfg) ==
    \A id \in 0..(Len(cfg) - 1) :
        LET node == cfg[id + 1] IN
        (Pos(id) > 0 /\ Branches(node) /\ node.truthy_id # node.falsy_id
            /\ Pos(node.falsy_id) > 0) =>
                Pos(node.truthy_id) > 0 /\ Pos(node.truthy_id) < Pos(node.falsy_id)

FallThroughLast(cfg) ==
    \A id \in 0..(Len(cfg) - 1) :
        LET node == cfg[id + 1] IN
        (Pos(id) > 0 /\ FallsThrough(node) /\ Pos(node.truthy_id) > Pos(id)) =>
            \A x \in PendingAt(cfg, id) \ {node.truthy_id} :
                Pos(x) > 0 /\ Pos(x) < Pos(node.truthy_id)

\* C29: in the code emitted for a lowered CFG the truthy successor of a
\* block with two successors comes before its falsy successor, and the
\* single successor of a fall-through block comes only after every branch
\* block that was pending when the fall-through block was emitted.
C29_EmissionOrder ==
    epc = "loop" => TruthyFirst(temp_cfg) /\ FallThroughLast(temp_cfg)

\* ------------------------------------------------- calls and stack depth
\* A program of two procedures: f, with up to MaxParams parameters, and
\* main, which declares locals, evaluates arithmetic and comparisons and
\* calls f; no name is declared twice.  emit_all_ir has registered both names in its first pass and
\* lowered both bodies in its second; generate_bytecode converts the CFGs,
\* Engine::new starts main, run() executes.

MaxParams == 2
MaxMiddle == 2

Params(arity) == [i \in 1..arity |-> IF i = 1 THEN "p" ELSE "q"]

\* The arguments main passes: a local, then a sum.
ArgsFor(arity) ==
    [i \in 1..arity |-> IF i = 1 THEN Identifier("a")
                         ELSE BinaryExpr("Plus", IntLit(1), Identifier("a"))]

CalleeBodies ==
    {<<ReturnStmt(IntLit(0))>>,
     <<VariableDecl("t", IntLit(2)), ExprStmtOf(IntLit(5)),
       VariableDecl("u", BinaryExpr("Plus", Identifier("t"), IntLit(1))),
       ReturnStmt(Identifier("u"))>>}

MiddleExprs(arity) ==
    {CallExpr("f", ArgsFor(arity)),
     BinaryExpr("Plus", Identifier("a"), CallExpr("f", ArgsFor(arity))),
     BinaryExpr("Times", CallExpr("f", ArgsFor(arity)), IntLit(2)),
     BinaryExpr("GreaterThan", Identifier("a"), IntLit(1)),
     BinaryExpr("Minus", Identifier("a"), IntLit(1)),
     Identifier("a"), IntLit(7)}

MiddleStmts(arity) ==
    {ExprStmtOf(e) : e \in MiddleExprs(arity)}
        \cup {VariableDecl("b", e) : e \in MiddleExprs(arity)}

CallingMains(arity) ==
    {<<VariableDecl("a", IntLit(3))>> \o middle \o
     <<VariableDecl("c", IntLit(4)), ReturnStmt(IntLit(0))>> :
        middle \in {m \in SeqsUpTo(MiddleStmts(arity), MaxMiddle) :
                        Cardinality({i \in 1..Len(m) : m[i].k = "Let"}) <= 1}}

\* record_fun_by_name in the first pass: f, then main.
FunLocations(arity) ==
    Insert(Insert(NoEntries, "f", [id |-> 0, arity |-> arity]),
           "main", [id |-> 1, arity |-> 0])

\* visit_function_decl in the second pass: the parameters are recorded as
\* ArgStore locators, then the body is lowered.
RECURSIVE RecordParams(_, _, _)
RecordParams(g, params, i) ==
    IF i > Len(params) THEN g
    ELSE RecordParams(record_varname_locator(g, params[i], <<"ArgStore", i - 1>>),
                      params, i + 1)

LowerFunction(funs, params, body) ==
    visit_block(RecordParams([IrNew EXCEPT !.fun_locations = funs], params, 1),
                body).g

DepthInit ==
    /\ EngineOff
    /\ analyzer = <<>> /\ sema_pc = [stage |-> "off"] /\ loader = [stage |-> "off"]
    /\ \E arity \in 0..MaxParams :
       \E callee \in CalleeBodies : \E body \in CallingMains(arity) :
       \E gf \in {LowerFunction(FunLocations(arity), Params(arity), callee)} :
       \E gm \in {LowerFunction(FunLocations(arity), <<>>, body)} :
          /\ full_ast = <<FunctionDecl("f", Params(arity), callee),
                          FunctionDecl("main", <<>>, body)>>
          /\ ir_emitter = [stage |-> "lowered",
                           has_error |-> gf.has_error \/ gm.has_error,
                           proto_constants |-> <<gf.proto_constants, gm.proto_constants>>,
                           main_id |-> 1,
                           depths |-> <<gf.depths, gm.depths>>,
                           fun_locals |-> <<gf.fun_locals, gm.fun_locals>>]
          /\ cfg_list = <<gf.nodes, gm.nodes>>
    /\ cfg_id = 0
    /\ pending_node_ids = <<>> /\ pending_patches = <<>>
    /\ temp_instructions = <<>> /\ done_ids = {} /\ chunks = <<>>
    /\ epc = "next"

\* The match of run() with the calls and the comparisons.
DispatchCall(e, ins, oc) ==
    CASE ins.op = "Call" -> do_call(e, ins.a, ins.b)
      [] ins.op = "CompareLt" -> do_cmp_lt(e)
      [] ins.op = "CompareEq" -> do_cmp_eq(e)
      [] OTHER -> Dispatch(e, ins, oc)

\* One iteration of the loop of run() on a program of several procedures:
\* fetch_constant reads the pool of the chunk that runs.
CallingStep ==
    /\ phase = "running" /\ ~is_done(Eng) /\ steps < MaxRun
    /\ \E oc \in BOOLEAN :
       \E e \in (IF StepDefined THEN {DispatchCall(Eng, next_instr, oc)}
                 ELSE {Panic(Eng), do_nop(Eng)}) :
          /\ Commit(try_sweep(e))
          /\ steps' = steps + 1
          /\ \E rec \in {IF ~StepDefined THEN NoCall
                          ELSE IF next_instr.op = "Return" THEN PoppedBy("Return")
                          ELSE IF next_instr.op = "Call"
                          THEN CallRec("Call", next_instr.b[2])
                          ELSE NoCall} :
                calls' = CallsAfter(e, rec) /\ last' = LastAfter(e, rec)
          /\ constants' = IF e.rpid + 1 \in 1..Len(ir_emitter.proto_constants)
                          THEN ir_emitter.proto_constants[e.rpid + 1] ELSE constants
    /\ UNCHANGED <<nat, emitter_vars, front_vars>>

DepthNext == EmitNext \/ Boot \/ CallingStep \/ Finish

DepthSpec == DepthInit /\ [][DepthNext]_vars

\* The body of the procedure that runs, and the instructions the first k
\* statements of it were lowered to.
RunningDecl == full_ast[rpid + 1]

StmtEnd(k) ==
    Len(LowerFunction(FunLocations(Len(full_ast[1].params)), RunningDecl.params,
                      SubSeq(RunningDecl.body, 1, k)).depths)

\* The engine is about to execute an instruction of the running procedure.
AtInstruction ==
    /\ phase = "running" /\ status = "Ok" /\ frames # <<>>
    /\ rip >= 0 /\ rip < Len(chunks[rpid + 1])

\* The local declared by statement k of the running procedure with a
\* literal is in the slot of its locator.
LocalInSlot(k) ==
    LET decl == RunningDecl.body[k]
        locator == ir_emitter.fun_locals[rpid + 1][decl.name]
    IN  (decl.k = "Let" /\ decl.e.k = "Literal" /\ StmtEnd(k) <= rip) =>
            /\ locator[1] = "TempStack"
            /\ InStack(rbp + locator[2])
            /\ fetch_stack_temp(Eng, locator[2]) = decl.e.val

SweepSlots == 4
SweepRefs == {VEmpty} \cup {VHeapRef(id) : id \in 0..2}

RECURSIVE SweepWith(_, _, _)
SweepWith(e, i, founds) ==
    IF i > Len(e.stack) \/ ~Alive(e) THEN e
    ELSE IF e.stack[i].t # "HeapRef" THEN SweepWith(e, i + 1, founds)
    ELSE LET id == e.stack[i].v
             found == IF IsSorted(e.heap.free_list)
                      THEN InList(e.heap.free_list, id) ELSE founds[i]
             c == Only({try_collect_cell_with(e.heap, id, found)})
         IN  SweepWith(IF c.panic THEN Panic([e EXCEPT !.heap = c.h])
                       ELSE [e EXCEPT !.heap = c.h], i + 1, founds)

\* A variant of try_sweep_with that does not ask is_ripe_for_sweep.
sweep_always(e, founds) == IF ~Alive(e) THEN e ELSE SweepWith(e, 1, founds)

try_sweep_with(e, founds) ==
    IF ~Alive(e) \/ ~is_ripe_for_sweep(e.heap) THEN e ELSE SweepWith(e, 1, founds)

SweepInit ==
    /\ \E b \in HeapBudgets : heap = ObjectHeap_new(b)
    /\ phase = "heap"
    /\ constants = <<>> /\ frames = <<>> /\ calls = <<>> /\ last = NoCall
    /\ stack \in [1..SweepSlots -> SweepRefs]
    /\ rpid = -1 /\ rip = 0 /\ rbp = 0 /\ rsp = -1
    /\ status = "Ok" /\ nat = "Ok" /\ steps = 0
    /\ EmitterOff /\ FrontOff

HeapSweep ==
    /\ phase = "heap"
    /\ HeapOp
    /\ \E founds \in [1..Len(stack) -> BOOLEAN] :
          Commit(try_sweep_with(Eng, founds))
    /\ UNCHANGED <<nat, constants, calls, last, emitter_vars, front_vars>>

SweepNext == HeapCreate \/ HeapIncRc \/ HeapDecRc \/ HeapSweep

SweepSpec == SweepInit /\ [][SweepNext]_vars

Count(list, x) == Cardinality({i \in 1..Len(list) : list[i] = x})

\* How many times the step put `id` on the free list.
ReclaimedTimes(id) == Count(heap'.free_list, id) - Count(heap.free_list, id)

\* What the reclaims of cell `id` took off the counter: the overhead of its
\* value, then that of the Empty value for every further reclaim.
SubtractedFor(id) ==
    IF ReclaimedTimes(id) = 0 THEN 0
    ELSE get_overhead(get_cell(heap, id).value)
             + (ReclaimedTimes(id) - 1) * DUD_OVERHEAD

Subtracted ==
    LET RECURSIVE UpTo(_)
        UpTo(id) == IF id < 0 THEN 0 ELSE SubtractedFor(id) + UpTo(id - 1)
    IN  UpTo(MaxCellId)

\* C32: a sweep changes the heap only when the overhead counter exceeds the
\* budget; every cell it reclaims had a refcount <= 0, is Empty afterwards,
\* has its overhead taken off the counter and its index on the free list, and
\* no other cell changes; an allocation returns the front of the free list
\* when there is one and appends a cell only when the free list is empty.
C32_SweepAndReuse ==
    [][ /\ HeapSweep =>
            /\ heap' # heap => is_ripe_for_sweep(heap)
            /\ \A id \in 0..MaxCellId :
                  /\ ReclaimedTimes(id) >= 0
                  /\ ReclaimedTimes(id) > 0 =>
                        /\ HasCell(heap, id)
                        /\ get_cell(heap, id).ref_count <= 0
                        /\ get_cell(heap', id) = HeapCell(HvEmpty)
                        /\ InList(heap'.free_list, id)
                  /\ (HasCell(heap, id) /\ get_cell(heap', id) # get_cell(heap, id))
                        => ReclaimedTimes(id) > 0
            /\ heap.overhead - heap'.overhead = Subtracted
            /\ Len(heap'.entries) = Len(heap.entries)
        /\ HeapCreate =>
            /\ heap.free_list # <<>> =>
                  /\ heap'.free_list = Tail(heap.free_list)
                  /\ Len(heap'.entries) = Len(heap.entries)
                  /\ \A tag \in HeapTags :
                        heap' = try_create_cell(heap, tag).h =>
                            try_create_cell(heap, tag).id = Head(heap.free_list)
            /\ Len(heap'.entries) > Len(heap.entries) => heap.free_list = <<>>
      ]_vars

\* The only cell was reclaimed by a sweep and its slot handed out again:
\* next_id is back at 0 while slot 0 holds a new string.
C32_Witness ==
    /\ phase = "heap"
    /\ Len(heap.entries) = 1 /\ heap.entries[1].value = HvVarchar(0)
    /\ heap.free_list = <<>> /\ heap.next_id = 0
    /\ heap.overhead = get_overhead(HvVarchar(0))

\* Cell `id` is reachable after the step: a live stack slot holds a HeapRef to
\* it, or a field of an instance that a live stack slot refers to does.
HeldInSlot(id) == \E i \in 0..rsp' : stack'[i + 1] = VHeapRef(id)

HeldInField(id) ==
    \E o \in 0..(Len(heap'.entries) - 1) :
        /\ HeldInSlot(o)
        /\ \E f \in 1..Len(get_cell(heap', o).value.fields) :
              get_cell(heap', o).value.fields[f] = VHeapRef(id)

\* C33: an iteration of run() that goes on (its sweep is try_sweep) never
\* reclaims a heap cell to which a live stack slot, or a field of an instance
\* held by a live stack slot, still refers.
C33_NoUseAfterFree ==
    [][ (phase = "running" /\ phase' = "running") =>
          \A id \in 0..MaxCellId :
              ReclaimedTimes(id) > 0 => ~HeldInSlot(id) /\ ~HeldInField(id)
      ]_vars

\* The allocation of the step: the outcome of try_create_cell for a tag that
\* explains the step.
Allocated(tag) == HeapCreate /\ heap' = try_create_cell(heap, tag).h

\* C34: when an allocation of a string returns a handle other than -1,
\* get_cell of that handle is the cell the allocation has just made (a new
\* empty string with refcount 0), in the slot appended by it when the free
\* list was empty.
C34_HandleIsCell ==
    [][ LET r == try_create_cell(heap, "Varchar") IN
        (Allocated("Varchar") /\ ~r.panic /\ r.id # -1) =>
            /\ HasCell(heap', r.id)
            /\ get_cell(heap', r.id) = HeapCell(HvVarchar(0))
            /\ heap.free_list = <<>> => r.id = Len(heap'.entries) - 1
      ]_vars

\* C35: for any sequence of allocations and sweeps the free list holds no
\* slot index twice: no slot that is on it has been reclaimed again.
C35_FreeListSound ==
    \A id \in 0..MaxCellId : Count(heap.free_list, id) <= 1

\* ------------------------------------------- emitter state across procedures

\* generate_bytecode is about to call convert_ir_cfg_to_chunk.
BeginsProcedure == epc = "next" /\ cfg_id < Len(cfg_list)

\* C36: when the emission of a procedure's CFG begins, the pending-patch
\* deque, the pending-block work list and the temporary instruction vector
\* are all empty.
C36_NoLeak ==
    BeginsProcedure =>
        /\ pending_patches = <<>>
        /\ pending_node_ids = <<>>
        /\ temp_instructions = <<>>

\* ------------------------------------------------- rejected declarations

\* The field index that get_member_id answers for a recorded field.
MemberId(em, class_name, field_name) ==
    em.class_layouts[class_name].members[field_name]

\* The field declarations of a class that come before the first one of
\* `field_name`, and the index that first declaration was recorded with.
FirstDecl(members, field_name) ==
    CHOOSE i \in 1..Len(members) :
        /\ members[i].kind = "Field" /\ members[i].name = field_name
        /\ \A j \in 1..(i - 1) :
              ~(members[j].kind = "Field" /\ members[j].name = field_name)

FirstId(members, field_name) ==
    Cardinality({members[j].name :
                    j \in {k \in 1..(FirstDecl(members, field_name) - 1) :
                              members[k].kind = "Field"}})

\* C37: a field declaration that ClassLayout::add_member rejects as a
\* duplicate leaves the recorded entry as it was: the index recorded for a
\* field of a class is the one its first declaration was given, whatever
\* declarations of the same name follow it.
C37_RejectedKeepsEntry ==
    \A i \in 1..Len(full_ast) :
        (full_ast[i].kind = "Class"
            /\ ir_emitter.stage \in {"emit", "failed", "done"}
            /\ HasKey(ir_emitter.class_layouts, full_ast[i].name)) =>
           \A n \in DOMAIN ir_emitter.class_layouts[full_ast[i].name].members :
               MemberId(ir_emitter, full_ast[i].name, n)
                   = FirstId(full_ast[i].members, n)

\* ---------------------------------------------- the analyzer's class context
\* The analyzer on programs made of a class A followed by free functions
\* whose bodies declare instances of A, access members through them and use
\* bare names.

MaxAccessBody == 3

InstanceStmt(name, class) == [k |-> "LetObj", name |-> name, class |-> class]
AccessStmt(name, member) == [k |-> "Access", name |-> name, member |-> member]

AccessStmts ==
    {InstanceStmt("p", "A"), AccessStmt("p", "x"), AccessStmt("p", "m"),
     AccessStmt("q", "x"), BodyStmt("Use", "x"), BodyStmt("Let", "x")}

AccessClasses ==
    {ClassDecl("A", ms) :
        ms \in {<<ConstructorDecl(<<>>, <<>>, "Exposed"), FieldDecl("x", mod)>> :
                   mod \in {"Exposed", "Hidden"}}
          \cup {<<ConstructorDecl(<<>>, <<>>, "Exposed"),
                  MethodDecl("m", <<>>, <<>>, "Exposed")>>}}

AccessFuns ==
    {FunctionDecl("f", ps, body) :
        ps \in {<<>>, <<"q">>}, body \in SeqsUpTo(AccessStmts, MaxAccessBody)}

LaterFuns ==
    {FunctionDecl("h", <<>>, body) :
        body \in {<<>>, <<BodyStmt("Use", "x")>>, <<BodyStmt("Let", "x")>>}}

AccessInit ==
    /\ EngineOff /\ EmitterOff
    /\ ir_emitter = [stage |-> "off"] /\ loader = [stage |-> "off"]
    /\ full_ast \in {<<c, f, h>> : c \in AccessClasses, f \in AccessFuns,
                                    h \in LaterFuns}
    /\ analyzer = Analyzer_new
    /\ sema_pc = [stage |-> "pass1", pos |-> 0]

AccessSpec == AccessInit /\ [][SemaNext]_vars

\* C38: whenever the analyzer has checked a declaration and goes on, its
\* current class id is the one of no class: a member access checked in a
\* free function leaves it as it was on entry.
C38_NoClassLeak ==
    sema_pc.stage \in {"pass1", "pass2", "ok"} =>
        analyzer.current_class_id = NoClass

====
